---- MODULE Spec2Model ----
(***************************************************************************)
(* CarbonWise website: the advice pipeline of AdviceButton                 *)
(* (handleGetAdvice, saveInsightsToFirestore, generateLocalAdvice) and the *)
(* Dashboard handlers that feed it (fetchUserData, addAction), run by two  *)
(* browser tabs of one signed-in user against one Firestore user document. *)
(*                                                                         *)
(* Each handler is cut at its awaits: the synchronous code between two     *)
(* awaits is one action.  A Firestore read or the service call may fail.   *)
(*                                                                         *)
(* Representation.                                                         *)
(*  - A JavaScript string is a sequence of fragments (TLA+ strings); the   *)
(*    empty string is <<>>, which is also what null is modelled as for a   *)
(*    string-or-null value (both are falsy in the source's tests).         *)
(*  - An ISO-8601 timestamp is the fixed-width digit sequence <<d1, d2>>   *)
(*    of a clock reading; Date parsing reads the digits back.              *)
(*  - A number is an integer, or an exact fraction [n, d] where the source *)
(*    divides.                                                             *)
(***************************************************************************)
EXTENDS Integers, Sequences, FiniteSets, TLC

\* ------------------------------------------------------------------ bounds

\* The clock reading at which the model starts, and the last reading at
\* which the clock still ticks.
ClockStart == 9
MaxClock == 10

\* How many handler calls a behaviour makes: calls of addAction plus calls of
\* handleGetAdvice that get past the empty-list check, over all tabs.
MaxCalls == 5

\* The two tabs (two mounted Dashboards, each with its AdviceButton), and the
\* tab in which the user submits actions.
Tabs == {"t1", "t2"}
Submitters == {"t1"}

\* Action names the user submits, spelled out for keyword matching.
Names == {"Drive", "Compost"}

Chars(name) ==
    CASE name = "Drive" -> <<"D", "r", "i", "v", "e">>
      [] name = "Compost" -> <<"C", "o", "m", "p", "o", "s", "t">>
      [] OTHER -> <<>>

\* What handleSubmitAction hands to addAction: a name and the carbon score
\* calculateCarbonFootprint returned for it.
Submissions == { <<"Drive", 62>>, <<"Compost", -5>> }

Null == <<>>

\* ------------------------------------------------------- dates and strings

\* new Date(t).toISOString(): fixed-width digits.
toISOString(t) == <<t \div 10, t % 10>>

\* new Date(isoString): the reading the digits spell.
DateParse(s) == s[1] * 10 + s[2]

RECURSIVE LexLess(_, _)
\* JavaScript's string order (code-unit by code-unit, a proper prefix first),
\* used by Array.prototype.sort on the advice keys.
LexLess(a, b) ==
    IF a = <<>> THEN b # <<>>
    ELSE IF b = <<>> THEN FALSE
    ELSE IF Head(a) # Head(b) THEN Head(a) < Head(b)
    ELSE LexLess(Tail(a), Tail(b))

\* The letters String.prototype.toLowerCase changes in the names used here,
\* and what it makes of them.
UpperCase ==
    << "A", "B", "C", "D", "E", "F", "G", "H", "I", "J", "K", "L", "M",
       "N", "O", "P", "Q", "R", "S", "T", "U", "V", "W", "X", "Y", "Z" >>
LowerCase ==
    << "a", "b", "c", "d", "e", "f", "g", "h", "i", "j", "k", "l", "m",
       "n", "o", "p", "q", "r", "s", "t", "u", "v", "w", "x", "y", "z" >>

\* Variant: the name is searched as typed.
keepCase(chars) == chars

\* String.prototype.toLowerCase.
toLowerCase(chars) ==
    [i \in 1..Len(chars) |->
        IF \E k \in 1..26 : UpperCase[k] = chars[i]
        THEN LowerCase[CHOOSE k \in 1..26 : UpperCase[k] = chars[i]]
        ELSE chars[i]]

\* String.prototype.includes: kw occurs as a substring of chars.
includes(chars, kw) ==
    \E i \in 1..(Len(chars) - Len(kw) + 1) :
        SubSeq(chars, i, i + Len(kw) - 1) = kw

includesAny(chars, kws) == \E kw \in kws : includes(chars, kw)

TransportationKeywords ==
    { <<"c","a","r">>, <<"d","r","i","v","e">>,
      <<"t","r","a","n","s","p","o","r","t">>, <<"f","l","i","g","h","t">>,
      <<"b","i","k","e">>, <<"c","y","c","l","e">> }
EnergyKeywords ==
    { <<"l","i","g","h","t">>, <<"e","n","e","r","g","y">>,
      <<"e","l","e","c","t","r","i","c">>, <<"a","c">>,
      <<"h","e","a","t","i","n","g">> }
FoodKeywords ==
    { <<"f","o","o","d">>, <<"m","e","a","l">>, <<"e","a","t">>,
      <<"p","r","o","d","u","c","e">> }
WasteKeywords ==
    { <<"w","a","s","t","e">>, <<"c","o","m","p","o","s","t">>,
      <<"r","e","c","y","c","l","e">>, <<"r","e","u","s","a","b","l","e">> }
EnvironmentKeywords ==
    { <<"t","r","e","e">>, <<"p","l","a","n","t">>,
      <<"e","n","v","i","r","o","n","m","e","n","t">> }

inferCategoryChars(chars) ==
    LET name == toLowerCase(chars) IN
    IF includesAny(name, TransportationKeywords) THEN "Transportation"
    ELSE IF includesAny(name, EnergyKeywords) THEN "Energy"
    ELSE IF includesAny(name, FoodKeywords) THEN "Food"
    ELSE IF includesAny(name, WasteKeywords) THEN "Waste"
    ELSE IF includesAny(name, EnvironmentKeywords) THEN "Environment"
    ELSE "General"

inferCategory(actionName) == inferCategoryChars(Chars(actionName))

\* ------------------------------------------------- the Dashboard's action list

\* Object.keys order of the stored actions map.
NameOrder == <<"Compost", "Drive">>

RECURSIVE insertByTimestamp(_, _)
\* One step of the stable sort (a, b) => new Date(b.timestamp) - new
\* Date(a.timestamp): x goes after every element that is not older than it.
insertByTimestamp(sorted, x) ==
    IF sorted = <<>> THEN <<x>>
    ELSE IF DateParse(Head(sorted).timestamp) >= DateParse(x.timestamp)
         THEN <<Head(sorted)>> \o insertByTimestamp(Tail(sorted), x)
         ELSE <<x>> \o sorted

RECURSIVE sortByTimestamp(_)
sortByTimestamp(arr) ==
    IF arr = <<>> THEN <<>>
    ELSE insertByTimestamp(sortByTimestamp(SubSeq(arr, 1, Len(arr) - 1)),
                           arr[Len(arr)])

\* Object.keys(actions).map(...) followed by the sort: the userActions list.
actionsArray(acts, stamps, nowIso) ==
    LET keys == SelectSeq(NameOrder, LAMBDA n : n \in DOMAIN acts)
        item(n) ==
            [action |-> n,
             sustainabilityScore |-> acts[n],
             timestamp |-> IF n \in DOMAIN stamps /\ stamps[n] # Null
                           THEN stamps[n] ELSE nowIso,
             category |-> inferCategory(n)]
    IN sortByTimestamp([i \in 1..Len(keys) |-> item(keys[i])])

\* ------------------------------------------------------ checkpoint selection

\* Variant: an action stamped at the checkpoint itself passes the test.
isAfterOrAt(action, T) ==
    IF action.timestamp = Null THEN FALSE
    ELSE DateParse(action.timestamp) >= DateParse(T)

\* Variant: the checkpoint is ignored.
selectEverything(userActions, T) == userActions

\* Variant: without a checkpoint only the most recent action is selected.
selectFirstWithoutCheckpoint(userActions, T) ==
    IF T = Null THEN SubSeq(userActions, 1, 1)
    ELSE SelectSeq(userActions,
            LAMBDA a : a.timestamp # Null /\ DateParse(a.timestamp) > DateParse(T))

\* The filter's test: the action has a timestamp and it parses to a later
\* moment than the checkpoint.
isAfter(action, T) ==
    IF action.timestamp = Null THEN FALSE
    ELSE DateParse(action.timestamp) > DateParse(T)

selectNewActions(userActions, T) ==
    IF T = Null THEN userActions
    ELSE SelectSeq(userActions, LAMBDA a : isAfter(a, T))

\* -------------------------------------------------------- JavaScript numbers
\* A Number is an IEEE-754 double: sign s, magnitude m * 2^e with m a natural
\* number of at most 53 bits, written as its bits from the lowest up, and odd
\* (zero is the empty m).  Exponent range and subnormals are left out: the
\* scores and sums here are far from both ends.
MantissaBits == 53

\* Natural numbers as bit sequences, lowest bit first.
Zeros(k) == [i \in 1..k |-> 0]
Bit(b, i) == IF i <= Len(b) THEN b[i] ELSE 0

\* b without its leading zero bits.
Trim(b) ==
    LET ones == {i \in 1..Len(b) : b[i] = 1}
    IN IF ones = {} THEN <<>>
       ELSE SubSeq(b, 1, CHOOSE i \in ones : \A j \in ones : j <= i)

NatBits(n) == Trim([i \in 1..31 |-> (n \div 2^(i - 1)) % 2])

\* a + b: bit i takes a carry when a lower pair of bits made one and every pair
\* between passed it on.
AddBits(a, b) ==
    LET width == (IF Len(a) > Len(b) THEN Len(a) ELSE Len(b)) + 1
        carry(i) ==
            IF \E j \in 1..(i - 1) :
                  /\ Bit(a, j) + Bit(b, j) = 2
                  /\ \A k \in (j + 1)..(i - 1) : Bit(a, k) + Bit(b, k) = 1
            THEN 1 ELSE 0
    IN Trim([i \in 1..width |-> (Bit(a, i) + Bit(b, i) + carry(i)) % 2])

\* a - b for a >= b.
SubBits(a, b) ==
    LET borrow(i) ==
            IF \E j \in 1..(i - 1) :
                  /\ Bit(a, j) < Bit(b, j)
                  /\ \A k \in (j + 1)..(i - 1) : Bit(a, k) <= Bit(b, k)
            THEN 1 ELSE 0
    IN Trim([i \in 1..Len(a) |-> (Bit(a, i) - Bit(b, i) - borrow(i) + 2) % 2])

\* a < b, for trimmed a and b.
LessBits(a, b) ==
    \/ Len(a) < Len(b)
    \/ /\ Len(a) = Len(b)
       /\ \E i \in 1..Len(a) :
             a[i] < b[i] /\ \A j \in (i + 1)..Len(a) : a[j] = b[j]

RECURSIVE BitsValue(_, _, _)
\* The number written by bits lo..hi of b, for fewer than 31 bits.
BitsValue(b, lo, hi) ==
    IF lo > hi THEN 0 ELSE Bit(b, lo) + 2 * BitsValue(b, lo + 1, hi)

\* Long division by n in 1..15, in digits of 24 bits from the highest down.
Digit(b, k) == BitsValue(b, 24 * (k - 1) + 1, 24 * k)
Digits(b) == (Len(b) + 23) \div 24

RECURSIVE RemAbove(_, _, _)
\* The remainder left when the digits of b from digit k up have been taken in.
RemAbove(b, k, n) ==
    IF k > Digits(b) THEN 0 ELSE (RemAbove(b, k + 1, n) * 2^24 + Digit(b, k)) % n

\* The quotient's bits.
DivBits(b, n) ==
    LET quotient == [k \in 1..Digits(b) |->
                        (RemAbove(b, k + 1, n) * 2^24 + Digit(b, k)) \div n] \o <<>>
    IN Trim([i \in 1..Len(b) |->
                (quotient[(i - 1) \div 24 + 1] \div 2^((i - 1) % 24)) % 2])

Zero == [s |-> 0, m |-> <<>>, e |-> 0]

\* The number with sign s and magnitude b * 2^e, for trimmed b of at most 53
\* bits.
Canon(s, b, e) ==
    IF b = <<>> THEN Zero
    ELSE LET z == (CHOOSE i \in 1..Len(b) : b[i] = 1 /\ \A j \in 1..(i - 1) : b[j] = 0) - 1
         IN [s |-> s, m |-> SubSeq(b, z + 1, Len(b)), e |-> e + z]

\* Round to nearest, ties to even: the double nearest to b * 2^e for trimmed
\* b, where sticky says that the exact magnitude is a little more than b * 2^e.
RoundDouble(s, b, e, sticky) ==
    LET d == Len(b) - MantissaBits
    IN IF d <= 0 THEN Canon(s, b, e)
       ELSE LET kept == SubSeq(b, d + 1, Len(b))
                more == sticky \/ \E i \in 1..(d - 1) : b[i] = 1
                up == b[d] = 1 /\ (more \/ kept[1] = 1)
            IN Canon(s, IF up THEN AddBits(kept, <<1>>) ELSE kept, e + d)

fromInt(n) == Canon(IF n < 0 THEN 1 ELSE 0, NatBits(IF n < 0 THEN -n ELSE n), 0)

\* The magnitude of x in units of 2^e, for e <= x.e.
Aligned(x, e) == IF x.m = <<>> THEN <<>> ELSE Zeros(x.e - e) \o x.m

\* x + y.
DoubleAdd(x, y) ==
    LET e == IF x.e < y.e THEN x.e ELSE y.e
        a == Aligned(x, e)
        b == Aligned(y, e)
    IN IF x.s = y.s THEN RoundDouble(x.s, AddBits(a, b), e, FALSE)
       ELSE IF LessBits(a, b) THEN RoundDouble(y.s, SubBits(b, a), e, FALSE)
       ELSE RoundDouble(x.s, SubBits(a, b), e, FALSE)

\* Length to which a numerator is padded before a division, so that the
\* quotient by a small divisor has bits to round away.
GuardBits == MantissaBits + 7

\* x / n for an integer n in 1..15.
DoubleDivInt(x, n) ==
    LET pad == GuardBits - Len(x.m)
        num == Zeros(pad) \o x.m
    IN IF x.m = <<>> THEN Zero
       ELSE RoundDouble(x.s, DivBits(num, n), x.e - pad, RemAbove(num, 1, n) # 0)

\* x < y.
DoubleLess(x, y) ==
    LET e == IF x.e < y.e THEN x.e ELSE y.e
        a == Aligned(x, e)
        b == Aligned(y, e)
    IN IF x.s # y.s THEN x.s = 1
       ELSE IF x.s = 0 THEN LessBits(a, b) ELSE LessBits(b, a)

\* parseFloat of the text "[-]whole.tenth" that the score's regular expression
\* matched: the double nearest to the decimal.
parseFloat(text) ==
    LET magnitude == DoubleDivInt(fromInt(text.whole * 10 + text.tenth), 10)
    IN IF text.neg /\ magnitude # Zero THEN [magnitude EXCEPT !.s = 1] ELSE magnitude

\* ---------------------------------------------------------------- statistics

formatActions(newActions) ==
    [i \in 1..Len(newActions) |->
        [action |-> newActions[i].action,
         sustainabilityScore |-> newActions[i].sustainabilityScore,
         timestamp |-> newActions[i].timestamp,
         category |-> newActions[i].category]]

RECURSIVE sumScores(_)
sumScores(actions) ==
    IF actions = <<>> THEN 0
    ELSE Head(actions).sustainabilityScore + sumScores(Tail(actions))

\* totalScore / length, kept exact.
average(total, count) ==
    IF count > 0 THEN [n |-> total, d |-> count] ELSE [n |-> 0, d |-> 1]

HighThreshold == 50
LowThreshold == 25

highImpact(actions) ==
    SelectSeq(actions, LAMBDA a : a.sustainabilityScore > HighThreshold)

lowImpact(actions) ==
    SelectSeq(actions, LAMBDA a : a.sustainabilityScore < LowThreshold)

computeStats(newActions) ==
    LET f == formatActions(newActions)
        total == sumScores(f)
    IN [formattedActions |-> f,
        totalScore |-> total,
        avgScore |-> average(total, Len(f)),
        highImpactActions |-> highImpact(f),
        lowImpactActions |-> lowImpact(f)]

NoStats ==
    [formattedActions |-> <<>>, totalScore |-> 0, avgScore |-> [n |-> 0, d |-> 1],
     highImpactActions |-> <<>>, lowImpactActions |-> <<>>]

\* The same statistics over Numbers.  The score of an action is what parseFloat
\* made of the service's answer, any double; the definitions above run on
\* whole-number scores, for which the two agree.
RECURSIVE totalScoreOf(_)
\* reduce((sum, a) => sum + a.sustainabilityScore, 0): left to right.
totalScoreOf(actions) ==
    IF actions = <<>> THEN Zero
    ELSE DoubleAdd(totalScoreOf(SubSeq(actions, 1, Len(actions) - 1)),
                   actions[Len(actions)].sustainabilityScore)

avgScoreOf(actions) ==
    IF Len(actions) > 0 THEN DoubleDivInt(totalScoreOf(actions), Len(actions)) ELSE Zero

\* Variant: the filter written with >= in place of >.
highImpactAtLeast(actions) ==
    SelectSeq(actions, LAMBDA a : ~DoubleLess(a.sustainabilityScore, fromInt(HighThreshold)))

highImpactActionsOf(actions) ==
    SelectSeq(actions, LAMBDA a : DoubleLess(fromInt(HighThreshold), a.sustainabilityScore))

lowImpactActionsOf(actions) ==
    SelectSeq(actions, LAMBDA a : DoubleLess(a.sustainabilityScore, fromInt(LowThreshold)))

aggregate(actions) ==
    [totalScore |-> totalScoreOf(actions),
     avgScore |-> avgScoreOf(actions),
     highImpactActions |-> highImpactActionsOf(actions),
     lowImpactActions |-> lowImpactActionsOf(actions)]

\* ------------------------------------------------------- number formatting

Abs(x) == IF x < 0 THEN -x ELSE x

\* (n / d).toFixed(1) for d # 0: the nearest tenth, a tie going to the larger
\* magnitude, "-" kept for a negative value that rounds to zero.
toFixed1(n, d) ==
    LET a == Abs(n)
        b == Abs(d)
        tenths == (20 * a + b) \div (2 * b)
        neg == (n < 0 /\ d > 0) \/ (n > 0 /\ d < 0)
    IN IF neg
       THEN <<"-", ToString(tenths \div 10), ".", ToString(tenths % 10)>>
       ELSE <<ToString(tenths \div 10), ".", ToString(tenths % 10)>>

\* (n / d).toFixed(1) where d may be zero: IEEE division gives NaN or an
\* infinity, which toFixed prints by name.
divToFixed1(n, d) ==
    IF d # 0 THEN toFixed1(n, d)
    ELSE IF n = 0 THEN <<"NaN">>
    ELSE IF n > 0 THEN <<"Infinity">>
    ELSE <<"-Infinity">>

\* A template placeholder holding an integer score.
numberText(x) == IF x < 0 THEN <<"-", ToString(-x)>> ELSE <<ToString(x)>>

plural(k) == IF k > 1 THEN <<"s">> ELSE <<>>

\* --------------------------------------------------------- local generation

\* Array.prototype.some, given the callback's result for each element.
some(tests) == \E i \in 1..Len(tests) : tests[i]

\* Array.prototype.slice(0, 5).
MaxItems == 5
slice5(arr) == SubSeq(arr, 1, IF Len(arr) < MaxItems THEN Len(arr) ELSE MaxItems)

generateLocalAdvice(actions, totalScore, avgScore, highImpactActions, lowImpactActions) ==
    LET avgText == toFixed1(avgScore.n, avgScore.d)
        i1 == IF Len(highImpactActions) > 0
              THEN << <<"You have ", ToString(Len(highImpactActions)), " high-impact action">>
                        \o plural(Len(highImpactActions))
                        \o <<" with carbon scores above 50 kg CO2. Focus on reducing these first for maximum impact.">>,
                      <<"Top concern: \"", highImpactActions[1].action, "\" has a carbon impact of ">>
                        \o numberText(highImpactActions[1].sustainabilityScore) \o <<" kg CO2.">> >>
              ELSE <<>>
        i2 == IF Len(lowImpactActions) > 0
              THEN << <<"Great job! You have ", ToString(Len(lowImpactActions)), " low-impact action">>
                        \o plural(Len(lowImpactActions))
                        \o <<" with carbon scores below 25 kg CO2.">> >>
              ELSE <<>>
        transportationActions == SelectSeq(actions, LAMBDA a : a.category = "Transportation")
        transportScore == sumScores(transportationActions)
        i3 == IF Len(transportationActions) > 0
              THEN << <<"Transportation accounts for ">>
                        \o divToFixed1(transportScore * 100, totalScore)
                        \o <<"% of your total carbon impact.">> >>
              ELSE <<>>
        i4 == << <<"Your average carbon impact per action is ">> \o avgText \o <<" kg CO2.">> >>
        r1 == IF some([i \in 1..Len(highImpactActions) |->
                        highImpactActions[i].category = "Transportation"])
              THEN << <<"Consider using public transportation, cycling, or walking instead of driving. These alternatives can reduce your transportation carbon footprint by 60-80%.">> >>
              ELSE <<>>
        r2 == IF some([i \in 1..Len(highImpactActions) |->
                        highImpactActions[i].category = "Energy"])
              THEN << <<"Optimize your energy usage: turn off lights when not in use, use energy-efficient appliances, and consider renewable energy sources.">> >>
              ELSE <<>>
        r3 == IF some([i \in 1..Len(actions) |->
                        actions[i].category = "Food" /\ actions[i].sustainabilityScore > 20])
              THEN << <<"Incorporate more plant-based meals into your diet. Plant-based foods typically have a much lower carbon footprint than meat and dairy.">> >>
              ELSE <<>>
        r4 == << <<"Continue your positive actions like composting, using reusable items, and choosing sustainable transportation options.">> >>
        r5 == << <<"Set a goal to reduce your average carbon impact per action from ">> \o avgText
                   \o <<" kg CO2 to below ">> \o toFixed1(avgScore.n * 7, avgScore.d * 10)
                   \o <<" kg CO2 over the next month.">> >>
    IN [insights |-> slice5(i1 \o i2 \o i3 \o i4),
        recommendations |-> slice5(r1 \o r2 \o r3 \o r4 \o r5),
        summary |-> <<"Based on ", ToString(Len(actions)), " tracked actions, you have a total carbon impact of ">>
                      \o toFixed1(totalScore, 1) \o <<" kg CO2. ">>
                      \o (IF Len(highImpactActions) > 0
                          THEN <<"Focus on reducing high-impact activities, particularly in transportation and energy usage.">>
                          ELSE <<"Continue your sustainable practices and look for additional opportunities to reduce your carbon footprint.">>)]

localAdviceOf(stats) ==
    generateLocalAdvice(stats.formattedActions, stats.totalScore, stats.avgScore,
                        stats.highImpactActions, stats.lowImpactActions)

\* --------------------------------------------------------------------- JSON
\* A JSON text is a sequence of tokens; a token is a sequence of strings:
\* <<"{">>, <<"}">>, <<"[">>, <<"]">>, <<"key", k>>, or <<"str">> followed by
\* the fragments of a string value.  An advice object is a record whose
\* "insights" and "recommendations" are arrays of strings and whose other
\* fields are strings.

SyntaxError == [error |-> "SyntaxError"]

ArrayKeys == {"insights", "recommendations"}
KeyOrder == <<"message", "insights", "recommendations", "summary">>

strToken(text) == <<"str">> \o text

valueTokens(k, v) ==
    IF k \in ArrayKeys
    THEN << <<"[">> >> \o [i \in 1..Len(v) |-> strToken(v[i])] \o << <<"]">> >>
    ELSE << strToken(v) >>

RECURSIVE memberTokens(_, _)
memberTokens(obj, keys) ==
    IF keys = <<>> THEN <<>>
    ELSE << <<"key", Head(keys)>> >> \o valueTokens(Head(keys), obj[Head(keys)])
         \o memberTokens(obj, Tail(keys))

\* Variant: the summary is not serialized.
JSONstringifyNoSummary(obj) ==
    << <<"{">> >>
    \o memberTokens(obj, SelectSeq(KeyOrder, LAMBDA k : k \in DOMAIN obj /\ k # "summary"))
    \o << <<"}">> >>

\* JSON.stringify of an advice object.
JSONstringify(obj) ==
    << <<"{">> >>
    \o memberTokens(obj, SelectSeq(KeyOrder, LAMBDA k : k \in DOMAIN obj))
    \o << <<"}">> >>

isStr(tok) == tok # <<>> /\ tok[1] = "str"
isKey(tok) == Len(tok) = 2 /\ tok[1] = "key"

\* The least index after from holding the token tok, or 0.
indexAfter(tokens, from, tok) ==
    LET hits == {j \in (from + 1)..Len(tokens) : tokens[j] = tok}
    IN IF hits = {} THEN 0 ELSE CHOOSE j \in hits : \A h \in hits : j <= h

RECURSIVE parseMembers(_, _, _)
\* The members of an object from token i on, added to acc.
parseMembers(tokens, i, acc) ==
    IF i > Len(tokens) THEN SyntaxError
    ELSE IF tokens[i] = <<"}">>
         THEN IF i = Len(tokens) THEN acc ELSE SyntaxError
    ELSE IF ~isKey(tokens[i]) \/ i + 1 > Len(tokens) THEN SyntaxError
    ELSE LET k == tokens[i][2] IN
         IF tokens[i + 1] = <<"[">>
         THEN LET j == indexAfter(tokens, i + 1, <<"]">>) IN
              IF j = 0 \/ \E m \in (i + 2)..(j - 1) : ~isStr(tokens[m])
              THEN SyntaxError
              ELSE parseMembers(tokens, j + 1,
                       (k :> [m \in 1..(j - i - 2) |-> Tail(tokens[i + 1 + m])]) @@ acc)
         ELSE IF isStr(tokens[i + 1])
              THEN parseMembers(tokens, i + 2, (k :> Tail(tokens[i + 1])) @@ acc)
              ELSE SyntaxError

\* JSON.parse of a text holding an advice object; SyntaxError when it throws.
JSONparse(tokens) ==
    IF tokens = <<>> \/ tokens[1] # <<"{">> THEN SyntaxError
    ELSE parseMembers(tokens, 2, [x \in {} |-> <<>>])

\* ------------------------------------------------------ the service's answer
\* The response text is a sequence of lines, a line a sequence of tokens.

\* The code-fence marker lines (three backquotes, with or without "json").
FenceJson == << <<"fence", "json">> >>
Fence == << <<"fence">> >>

RECURSIVE flatten(_)
flatten(seqs) == IF seqs = <<>> THEN <<>> ELSE Head(seqs) \o flatten(Tail(seqs))

\* The least index of a line after from satisfying Test, or 0.
lineAfter(lines, from, marks) ==
    LET hits == {j \in (from + 1)..Len(lines) : lines[j] \in marks}
    IN IF hits = {} THEN 0 ELSE CHOOSE j \in hits : \A h \in hits : j <= h

\* The two regular-expression matches on responseText (the "json" fence first,
\* then any fence; the lazy group ends at the next fence), then
\* jsonMatch ? jsonMatch[1] : responseText.
stripCodeFence(lines) ==
    LET o1 == lineAfter(lines, 0, {FenceJson})
        c1 == IF o1 = 0 THEN 0 ELSE lineAfter(lines, o1, {Fence, FenceJson})
        o2 == lineAfter(lines, 0, {Fence, FenceJson})
        c2 == IF o2 = 0 THEN 0 ELSE lineAfter(lines, o2, {Fence, FenceJson})
    IN IF c1 # 0 THEN SubSeq(lines, o1 + 1, c1 - 1)
       ELSE IF c2 # 0 THEN SubSeq(lines, o2 + 1, c2 - 1)
       ELSE lines

\* The characters of a line, and of the whole text (lines joined by "\n").
lineText(line) == flatten(line)

RECURSIVE joinLines(_)
joinLines(lines) ==
    IF lines = <<>> THEN <<>>
    ELSE IF Len(lines) = 1 THEN lineText(lines[1])
    ELSE lineText(Head(lines)) \o <<"\n">> \o joinLines(Tail(lines))

\* The record built when JSON.parse throws.
rawAdvice(responseText) ==
    LET texts == [i \in 1..Len(responseText) |-> lineText(responseText[i])]
    IN [message |-> joinLines(responseText),
        insights |-> slice5(SelectSeq(texts, LAMBDA t : Len(t) > 0))]

\* Variant: an unparsable text is not caught.
parseAdviceUncaught(responseText) == JSONparse(flatten(stripCodeFence(responseText)))

\* The inner try/catch around JSON.parse.
parseAdvice(responseText) ==
    LET parsed == JSONparse(flatten(stripCodeFence(responseText)))
    IN IF parsed = SyntaxError THEN rawAdvice(responseText) ELSE parsed

\* What the service can answer.
RemoteAdvice ==
    [insights |-> << <<"Your commute dominates your footprint.">>,
                     <<"Composting offsets part of it.">>,
                     <<"Your footprint grew this week.">> >>,
     recommendations |-> << <<"Carpool twice a week.">>,
                            <<"Keep composting.">>,
                            <<"Plan one car-free day.">> >>,
     summary |-> <<"Driving is the main source of your emissions.">>]

Prose == << <<"txt", "Here is my advice: drive less.">> >>
Blank == <<>>

Prose2 == << <<"txt", "Also: keep composting.">> >>
JsonLine == JSONstringify(RemoteAdvice)

\* Texts that hold the JSON object the prompt asks for, bare or fenced, and
\* texts that hold none (prose, or no text at all).
JsonTexts == { <<JsonLine>>, <<FenceJson, JsonLine, Fence>> }
MalformedTexts == { <<Prose, Blank, Prose2>>, <<>> }
ResponseTexts == JsonTexts \cup MalformedTexts

\* fetch() rejects, the status is not 2xx, response.json() throws, or the
\* envelope parses and carries a text.
FetchOutcomes ==
    { [kind |-> k, text |-> <<>>] : k \in {"throw", "status500", "badEnvelope"} }
    \cup { [kind |-> "text", text |-> t] : t \in ResponseTexts }

\* ------------------------------------------------------------------- state

VARIABLES
    now,                          \* the wall clock, in clock readings
    apiKey,                       \* process.env.REACT_APP_GEMINI_API_KEY is set
    actions,                      \* users/<uid>.actions
    actionTimestamps,             \* users/<uid>.actionTimestamps
    previousAdvice,               \* users/<uid>.previousAdvice
    mostRecentInsightsTimestamp,  \* users/<uid>.mostRecentInsightsTimestamp
    mounted,                      \* the tab's Dashboard has run its mount effect
    userActions,                  \* Dashboard state, per tab
    pc,                           \* where each tab's handleGetAdvice stands
    inv,                          \* the locals of each tab's latest handleGetAdvice
    advice, error, loading,       \* AdviceButton state, per tab
    addPc,                        \* where each tab's addAction stands
    add,                          \* the locals of each tab's addAction
    adds, cycles,                 \* calls made so far (see MaxCalls)
    trace,                        \* history: what each tab's latest invocation did
    written,                      \* history: <<key, record>> of every persist
    reflected,                    \* history: <<name, timestamp>> aggregated by a persisted cycle
    call,                         \* a function applied on its own: its name and argument
    result,                       \* what that application returned
    accounts,                     \* Firebase Auth: the uids that have an account
    users,                        \* Firestore: the documents of the users collection
    signupPc,                     \* where each call of signup stands
    signupLocal,                  \* the locals and the return value of each call of signup
    state,                        \* content script: bannerShown, lastPromptHash, isProcessing
    banner,                       \* content script: the element it holds, <<n>> for the n-th created, or null
    dom,                          \* the banner elements attached to the page
    content,                      \* what the banner shows: offer, processing or success
    fieldText,                    \* the text in the page's prompt field
    urlChanged,                   \* the page's URL differs from lastUrl
    debounceTimer,                \* ms until the debounced checkPrompt, or null
    initTimer,                    \* ms until the initial checkPrompt, or null
    hideTimers,                   \* the auto-hide timeouts: ms left, banner shown when armed
    removeTimers,                 \* the post-success timeouts: ms left, banner held when armed
    optimizing,                   \* where handleOptimizeClick stands, ms left of its delay
    nextBanner,                   \* the number of banner elements created so far, plus one
    quiet,                        \* ms since the last input, paste or keyup event
    events,                       \* the number of user events so far on the page
    offscreen,                    \* background worker: an offscreen document exists
    worker,                       \* where each call of createOffscreenDocument stands
    authUser,                     \* offscreen document: auth.currentUser
    popup,                        \* popup: currentUser, currentIdToken and chrome.storage.local
    requests,                     \* the popup's messages to the offscreen document
    authEvents,                   \* authStateChanged messages on their way to the popup
    loadPending,                  \* the popup's chrome.storage.local.get has not called back
    authOps,                      \* the number of clicks on the popup's auth buttons
    signedOut,                    \* a sign-out has completed and no sign-in has succeeded since
    addFriend                     \* where each component's handleAddFriend stands, and its locals

vars ==
    <<now, apiKey, actions, actionTimestamps, previousAdvice,
      mostRecentInsightsTimestamp, mounted, userActions, pc, inv, advice, error,
      loading, addPc, add, adds, cycles, trace, written, reflected, call, result,
      accounts, users, signupPc, signupLocal,
      state, banner, dom, content, fieldText, urlChanged, debounceTimer, initTimer,
      hideTimers, removeTimers, optimizing, nextBanner, quiet, events,
      offscreen, worker,
      authUser, popup, requests, authEvents, loadPending, authOps, signedOut,
      addFriend>>

storeVars == <<actions, actionTimestamps, previousAdvice, mostRecentInsightsTimestamp>>
adviceStoreVars == <<previousAdvice, mostRecentInsightsTimestamp>>
actionStoreVars == <<actions, actionTimestamps>>
historyVars == <<written, reflected>>
buttonVars == <<advice, error, loading>>
addVars == <<addPc, add>>
listVars == <<mounted, userActions>>
countVars == <<adds, cycles>>
authVars == <<accounts, users, signupPc, signupLocal>>
bannerVars == <<state, banner, dom, content, fieldText, urlChanged, debounceTimer,
                initTimer, hideTimers, removeTimers, optimizing, nextBanner, quiet,
                events>>
workerVars == <<offscreen, worker>>
popupVars == <<authUser, popup, requests, authEvents, loadPending, authOps, signedOut>>
envVars == <<apiKey, call, result, authVars, bannerVars, workerVars, popupVars, addFriend>>
pipelineVars ==
    <<now, apiKey, storeVars, listVars, pc, inv, buttonVars, addVars, countVars,
      trace, historyVars>>

NullAdvice == [none |-> TRUE]

NoActionsMsg == <<"No user actions available. Please record some actions first.">>
NoNewActionsMsg ==
    <<"No new actions since your last insights. Add some new actions to get updated insights!">>

EmptyMap == [x \in {} |-> <<>>]

IdleInv ==
    [userActions |-> <<>>, T |-> Null, newActions |-> <<>>, stats |-> NoStats,
     responseText |-> <<>>, adviceData |-> NullAdvice,
     currentPreviousAdvice |-> EmptyMap,
     timestamp |-> Null, adviceString |-> <<>>, inCatch |-> FALSE]

IdleAdd ==
    [actionName |-> "", score |-> 0, currentActions |-> EmptyMap,
     currentActionTimestamps |-> EmptyMap, timestamp |-> Null]

\* History of an invocation: the path it took, how the service call went, the
\* checkpoint the store held when it was called, the key of the stored advice
\* it parsed, how its save went, and how many times it called the service,
\* generateLocalAdvice and saveInsightsToFirestore.
IdleTrace ==
    [path |-> "none", cause |-> "none", stored |-> Null, key |-> Null,
     persist |-> "none", service |-> 0, local |-> 0, saves |-> 0]

NoCall == [fn |-> "none", arg |-> <<>>]
Pending == [pending |-> TRUE]

\* The user document as signup wrote it; no tab has loaded the list yet.
Signup ==
    /\ now = ClockStart
    /\ actions = EmptyMap
    /\ actionTimestamps = EmptyMap
    /\ previousAdvice = EmptyMap
    /\ mostRecentInsightsTimestamp = Null
    /\ mounted = [p \in Tabs |-> FALSE]
    /\ userActions = [p \in Tabs |-> <<>>]
    /\ pc = [p \in Tabs |-> "idle"]
    /\ inv = [p \in Tabs |-> IdleInv]
    /\ advice = [p \in Tabs |-> NullAdvice]
    /\ error = [p \in Tabs |-> Null]
    /\ loading = [p \in Tabs |-> FALSE]
    /\ addPc = [p \in Tabs |-> "idle"]
    /\ add = [p \in Tabs |-> IdleAdd]
    /\ adds = 0
    /\ cycles = 0
    /\ trace = [p \in Tabs |-> IdleTrace]
    /\ written = {}
    /\ reflected = {}

\* The content script's configuration, in ms and characters.
MIN_PROMPT_LENGTH == 100
DEBOUNCE_MS == 800
BANNER_AUTO_HIDE_MS == 15000
INITIAL_CHECK_MS == 1000
PROCESSING_MS == 1500
REMOVE_AFTER_MS == 2000

\* The calls of signup made in the browser, and what a call holds before it
\* is made.
SignupCalls == {"s1", "s2"}
NoSignup == [email |-> <<>>, uid |-> "", user |-> Null, error |-> Null]

\* No signup is under way; the accounts and the other users' documents play
\* no part.
AuthIdle ==
    /\ accounts = {}
    /\ users = EmptyMap
    /\ signupPc = [c \in SignupCalls |-> "idle"]
    /\ signupLocal = [c \in SignupCalls |-> NoSignup]

\* The content script as init leaves it on a page whose prompt field is empty.
ScriptLoaded ==
    /\ state = [currentPrompt |-> <<>>, bannerShown |-> FALSE,
                lastPromptHash |-> Null, isProcessing |-> FALSE]
    /\ banner = Null
    /\ dom = {}
    /\ content = "none"
    /\ fieldText = <<>>
    /\ urlChanged = FALSE
    /\ debounceTimer = Null
    /\ initTimer = <<INITIAL_CHECK_MS>>
    /\ hideTimers = {}
    /\ removeTimers = {}
    /\ optimizing = [at |-> "idle", left |-> 0]
    /\ nextBanner = 1
    /\ quiet = DEBOUNCE_MS
    /\ events = 0

\* The calls of createOffscreenDocument: the one made when the worker starts
\* and those made by the message listener.
WorkerCalls == {"startup", "m1", "m2"}
NotCalled == [at |-> "idle", action |-> "", hasDocument |-> FALSE, failed |-> FALSE]

\* The extension is installed and its worker has not run.
WorkerIdle ==
    /\ offscreen = FALSE
    /\ worker = [c \in WorkerCalls |-> NotCalled]

\* The popup's requests, and a request that was not sent.
RequestKinds ==
    {"signInWithEmailPassword", "createUserWithEmailPassword", "signOut",
     "getIdToken", "getCurrentUser"}
NoRequest == [at |-> "idle", response |-> [success |-> FALSE, user |-> <<>>, idToken |-> <<>>]]
NoSession == [currentUser |-> <<>>, currentIdToken |-> <<>>,
              userEmail |-> <<>>, userUid |-> <<>>, idToken |-> <<>>]

\* The two components with an Add Friend form, and a form not submitted.
Components == {"Dashboard", "Leaderboard"}
NotAdding == [at |-> "idle", friendEmail |-> <<>>, friendId |-> "",
              currentFriends |-> <<>>, addFriendError |-> ""]

\* The popup is closed and nobody is signed in; no Add Friend form is open.
PopupClosed ==
    /\ addFriend = [p \in Components |-> NotAdding]
    /\ authUser = <<>>
    /\ popup = NoSession
    /\ requests = [k \in RequestKinds |-> NoRequest]
    /\ authEvents = <<>>
    /\ loadPending = FALSE
    /\ authOps = 0
    /\ signedOut = FALSE

Init ==
    /\ Signup
    /\ apiKey \in BOOLEAN
    /\ call = NoCall
    /\ result = Pending
    /\ AuthIdle
    /\ ScriptLoaded
    /\ WorkerIdle
    /\ PopupClosed

\* ------------------------------------------------------------ the Dashboard

Tick ==
    /\ now < MaxClock
    /\ now' = now + 1
    /\ UNCHANGED <<envVars, storeVars, listVars, pc, inv, buttonVars, addVars,
                   trace, historyVars, countVars>>

\* The Dashboard mounts in a tab and fetchUserData loads the list, or leaves
\* it empty when the read fails (ok = FALSE).
fetchUserData(p, ok) ==
    /\ ~mounted[p]
    /\ mounted' = [mounted EXCEPT ![p] = TRUE]
    /\ userActions' = [userActions EXCEPT ![p] =
          IF ok THEN actionsArray(actions, actionTimestamps, toISOString(now))
          ELSE <<>>]
    /\ UNCHANGED <<now, envVars, storeVars, pc, inv, buttonVars, addVars, trace,
                   historyVars, countVars>>

\* addAction up to its updateDoc call: the document is read, the timestamp is
\* taken and the write is issued with the maps as read.
addActionRead(p, actionName, score) ==
    /\ mounted[p]
    /\ addPc[p] = "idle"
    /\ adds' = adds + 1
    /\ add' = [add EXCEPT ![p] =
          [actionName |-> actionName, score |-> score,
           currentActions |-> actions,
           currentActionTimestamps |-> actionTimestamps,
           timestamp |-> toISOString(now)]]
    /\ addPc' = [addPc EXCEPT ![p] = "write"]
    /\ UNCHANGED <<now, envVars, storeVars, listVars, pc, inv, buttonVars,
                   trace, historyVars, cycles>>

\* The two fields updateDoc replaces.
addActionUpdate(a) ==
    [actions |-> (a.actionName :> a.score) @@ a.currentActions,
     actionTimestamps |-> (a.actionName :> a.timestamp) @@ a.currentActionTimestamps]

\* updateDoc lands, the refreshing getDoc returns and the list is rebuilt.
\* (The refresh is taken with the update: it reads what the update wrote.)
addActionWrite(p) ==
    /\ addPc[p] = "write"
    /\ actions' = addActionUpdate(add[p]).actions
    /\ actionTimestamps' = addActionUpdate(add[p]).actionTimestamps
    /\ userActions' = [userActions EXCEPT ![p] =
          actionsArray(actions', actionTimestamps', toISOString(now))]
    /\ addPc' = [addPc EXCEPT ![p] = "idle"]
    /\ add' = [add EXCEPT ![p] = IdleAdd]
    /\ UNCHANGED <<now, envVars, adviceStoreVars, mounted, pc, inv, buttonVars,
                   trace, historyVars, countVars>>

\* ---------------------------------------------------------- handleGetAdvice

\* handleGetAdvice from its call to its first await.  With an empty list it
\* returns at once with the error set; otherwise it clears the button's state
\* and reads the user document.
handleGetAdviceStartUnflagged(p) ==
    /\ ~loading[p]
    /\ cycles' = IF Len(userActions[p]) = 0 THEN cycles ELSE cycles + 1
    /\ IF Len(userActions[p]) = 0
       THEN /\ error' = [error EXCEPT ![p] = NoActionsMsg]
            /\ pc' = [pc EXCEPT ![p] = "done"]
            /\ trace' = [trace EXCEPT ![p] =
                  [IdleTrace EXCEPT !.path = "emptyList",
                                    !.stored = mostRecentInsightsTimestamp]]
            /\ UNCHANGED <<advice, loading>>
       ELSE /\ UNCHANGED loading
            /\ advice' = [advice EXCEPT ![p] = NullAdvice]
            /\ error' = [error EXCEPT ![p] = Null]
            /\ pc' = [pc EXCEPT ![p] = "read1"]
            /\ trace' = [trace EXCEPT ![p] =
                  [IdleTrace EXCEPT !.stored = mostRecentInsightsTimestamp]]
    /\ inv' = [inv EXCEPT ![p] = [IdleInv EXCEPT !.userActions = userActions[p]]]
    /\ UNCHANGED <<now, envVars, storeVars, listVars, addVars, historyVars, adds>>

\* The trigger is disabled while loading is true (disabled={loading || ...}),
\* so the handler runs only when the flag is down.
handleGetAdviceStart(p) ==
    /\ ~loading[p]
    /\ cycles' = IF Len(userActions[p]) = 0 THEN cycles ELSE cycles + 1
    /\ IF Len(userActions[p]) = 0
       THEN /\ error' = [error EXCEPT ![p] = NoActionsMsg]
            /\ pc' = [pc EXCEPT ![p] = "done"]
            /\ trace' = [trace EXCEPT ![p] =
                  [IdleTrace EXCEPT !.path = "emptyList",
                                    !.stored = mostRecentInsightsTimestamp]]
            /\ UNCHANGED <<advice, loading>>
       ELSE /\ loading' = [loading EXCEPT ![p] = TRUE]
            /\ advice' = [advice EXCEPT ![p] = NullAdvice]
            /\ error' = [error EXCEPT ![p] = Null]
            /\ pc' = [pc EXCEPT ![p] = "read1"]
            /\ trace' = [trace EXCEPT ![p] =
                  [IdleTrace EXCEPT !.stored = mostRecentInsightsTimestamp]]
    /\ inv' = [inv EXCEPT ![p] = [IdleInv EXCEPT !.userActions = userActions[p]]]
    /\ UNCHANGED <<now, envVars, storeVars, listVars, addVars, historyVars, adds>>

\* userData.mostRecentInsightsTimestamp || null, and null when the read threw.
readCheckpoint(ok) == IF ok THEN mostRecentInsightsTimestamp ELSE Null

\* The first getDoc returns (ok) or throws: the checkpoint is read, the new
\* actions are selected and, when there are some, the statistics computed.
\* Then: the second read is issued (nothing new), or local advice is built and
\* the save begun (no API key), or the service is called.
handleGetAdviceSelect(p, ok) ==
    /\ pc[p] = "read1"
    /\ LET T == readCheckpoint(ok)
           newActions == selectNewActions(inv[p].userActions, T)
           stats == computeStats(newActions)
           base == [inv[p] EXCEPT !.T = T, !.newActions = newActions]
       IN IF Len(newActions) = 0
          THEN IF T # Null
               THEN /\ pc' = [pc EXCEPT ![p] = "read2"]
                    /\ inv' = [inv EXCEPT ![p] = base]
                    /\ trace' = [trace EXCEPT ![p] = [@ EXCEPT !.path = "nothingNew"]]
                    /\ UNCHANGED buttonVars
               ELSE /\ pc' = [pc EXCEPT ![p] = "done"]
                    /\ inv' = [inv EXCEPT ![p] = base]
                    /\ error' = [error EXCEPT ![p] = NoActionsMsg]
                    /\ loading' = [loading EXCEPT ![p] = FALSE]
                    /\ trace' = [trace EXCEPT ![p] = [@ EXCEPT !.path = "noActions"]]
                    /\ UNCHANGED advice
          ELSE IF ~apiKey
               THEN /\ pc' = [pc EXCEPT ![p] = "saveRead"]
                    /\ inv' = [inv EXCEPT ![p] =
                          [base EXCEPT !.stats = stats, !.adviceData = localAdviceOf(stats)]]
                    /\ advice' = [advice EXCEPT ![p] = localAdviceOf(stats)]
                    /\ trace' = [trace EXCEPT ![p] =
                          [@ EXCEPT !.path = "generated", !.cause = "noKey",
                                    !.local = @ + 1, !.saves = @ + 1]]
                    /\ UNCHANGED <<error, loading>>
               ELSE /\ pc' = [pc EXCEPT ![p] = "fetch"]
                    /\ inv' = [inv EXCEPT ![p] = [base EXCEPT !.stats = stats]]
                    /\ trace' = [trace EXCEPT ![p] =
                          [@ EXCEPT !.path = "generated", !.service = @ + 1]]
                    /\ UNCHANGED buttonVars
    /\ UNCHANGED <<now, envVars, storeVars, listVars, addVars, historyVars, countVars>>

\* Object.keys(previousAdvice).sort().reverse()[0].
latestKey(pa) ==
    CHOOSE k \in DOMAIN pa : \A j \in DOMAIN pa : j = k \/ LexLess(j, k)

\* The key whose string the nothing-new branch parses: the checkpoint itself
\* when the mapping holds a non-empty string under it, else the latest key,
\* else none.
previousAdviceKey(pa, T) ==
    IF T \in DOMAIN pa /\ pa[T] # <<>> THEN T
    ELSE IF DOMAIN pa # {} THEN latestKey(pa)
    ELSE Null

\* What setAdvice receives in the nothing-new branch, if anything.
previousAdviceShown(pa, T) ==
    LET key == previousAdviceKey(pa, T)
    IN IF key = Null THEN SyntaxError ELSE JSONparse(pa[key])

\* The second getDoc returns (ok) or throws: the stored advice is parsed and
\* shown, the informational message is set and the invocation ends.
handleGetAdvicePrevious(p, ok) ==
    /\ pc[p] = "read2"
    /\ LET parsed == IF ok THEN previousAdviceShown(previousAdvice, inv[p].T)
                     ELSE SyntaxError
       IN advice' = [advice EXCEPT ![p] = IF parsed = SyntaxError THEN @ ELSE parsed]
    /\ trace' = [trace EXCEPT ![p] =
          [@ EXCEPT !.key = IF ok THEN previousAdviceKey(previousAdvice, inv[p].T)
                            ELSE Null]]
    /\ error' = [error EXCEPT ![p] = NoNewActionsMsg]
    /\ loading' = [loading EXCEPT ![p] = FALSE]
    /\ pc' = [pc EXCEPT ![p] = "done"]
    /\ UNCHANGED inv
    /\ UNCHANGED <<now, envVars, storeVars, listVars, addVars, historyVars, countVars>>

\* Variant: a failed request leaves no advice.
adviceAfterFetchNoFallback(r, stats) ==
    IF r.kind # "text" THEN NullAdvice ELSE parseAdvice(r.text)

\* What the rest of handleGetAdvice works with once fetch has settled as r:
\* a rejection, a non-2xx status or an unparsable envelope throws into the
\* catch block, which builds local advice; otherwise the text is parsed.
adviceAfterFetch(r, stats) ==
    IF r.kind # "text" THEN localAdviceOf(stats) ELSE parseAdvice(r.text)

\* Variant: a rejected fetch is tried once more before the catch block runs.
handleGetAdviceFetchRetried(p, r) ==
    /\ pc[p] = "fetch"
    /\ IF r.kind = "throw" /\ trace[p].service < 2
       THEN /\ trace' = [trace EXCEPT ![p] = [@ EXCEPT !.service = @ + 1]]
            /\ UNCHANGED <<pc, inv, advice>>
       ELSE /\ inv' = [inv EXCEPT ![p] =
                  [@ EXCEPT !.responseText = IF r.kind # "text" THEN <<>> ELSE r.text,
                            !.adviceData = adviceAfterFetch(r, inv[p].stats),
                            !.inCatch = r.kind # "text"]]
            /\ advice' = [advice EXCEPT ![p] = adviceAfterFetch(r, inv[p].stats)]
            /\ trace' = [trace EXCEPT ![p] =
                  [@ EXCEPT !.cause =
                               IF r.kind # "text" THEN r.kind
                               ELSE IF JSONparse(flatten(stripCodeFence(r.text))) = SyntaxError
                                    THEN "badText"
                                    ELSE "ok",
                            !.local = IF r.kind # "text" THEN @ + 1 ELSE @,
                            !.saves = @ + 1]]
            /\ pc' = [pc EXCEPT ![p] = "saveRead"]
    /\ UNCHANGED <<now, envVars, storeVars, listVars, error, loading, addVars,
                   historyVars, countVars>>

\* fetch settles as r; the advice is shown and the save begun.
handleGetAdviceFetch(p, r) ==
    /\ pc[p] = "fetch"
    /\ LET threw == r.kind # "text"
           data == adviceAfterFetch(r, inv[p].stats)
       IN /\ inv' = [inv EXCEPT ![p] =
                [@ EXCEPT !.responseText = IF threw THEN <<>> ELSE r.text,
                          !.adviceData = data, !.inCatch = threw]]
          /\ advice' = [advice EXCEPT ![p] = data]
          /\ trace' = [trace EXCEPT ![p] =
                [@ EXCEPT !.cause =
                             IF threw THEN r.kind
                             ELSE IF JSONparse(flatten(stripCodeFence(r.text))) = SyntaxError
                                  THEN "badText"
                                  ELSE "ok",
                          !.local = IF threw THEN @ + 1 ELSE @,
                          !.saves = @ + 1]]
    /\ pc' = [pc EXCEPT ![p] = "saveRead"]
    /\ UNCHANGED <<now, envVars, storeVars, listVars, error, loading, addVars,
                   historyVars, countVars>>

\* ------------------------------------------------- saveInsightsToFirestore

\* Variant: the fallback reports the failure of the service although local
\* advice is shown.
afterSaveReportsFailure(p, how) ==
    /\ error' = [error EXCEPT ![p] =
          IF inv[p].inCatch THEN <<"Failed to fetch personalized advice. Please try again.">>
          ELSE @]
    /\ loading' = [loading EXCEPT ![p] = FALSE]
    /\ pc' = [pc EXCEPT ![p] = "done"]
    /\ trace' = [trace EXCEPT ![p] = [@ EXCEPT !.persist = how]]
    /\ UNCHANGED inv

\* Variant: a failed write sends the invocation back to save again.
afterSaveAgain(p, how) ==
    IF how = "writeFailed"
    THEN /\ pc' = [pc EXCEPT ![p] = "saveRead"]
         /\ UNCHANGED <<error, loading, trace, inv>>
    ELSE /\ error' = [error EXCEPT ![p] = IF inv[p].inCatch THEN Null ELSE @]
         /\ loading' = [loading EXCEPT ![p] = FALSE]
         /\ pc' = [pc EXCEPT ![p] = "done"]
         /\ trace' = [trace EXCEPT ![p] = [@ EXCEPT !.persist = how]]
         /\ UNCHANGED inv

\* Back in handleGetAdvice after saveInsightsToFirestore returned (how: its
\* write landed, or its read or its write threw and was logged): the catch
\* block clears the error and finally clears the busy flag.
afterSave(p, how) ==
    /\ error' = [error EXCEPT ![p] = IF inv[p].inCatch THEN Null ELSE @]
    /\ loading' = [loading EXCEPT ![p] = FALSE]
    /\ pc' = [pc EXCEPT ![p] = "done"]
    /\ trace' = [trace EXCEPT ![p] = [@ EXCEPT !.persist = how]]
    /\ UNCHANGED inv

\* The timestamp saveInsightsToFirestore takes once its read has returned.
saveTimestamp == toISOString(now)

\* Variant: a failed read is not caught inside saveInsightsToFirestore; the
\* caller drops the advice and reports the failure.
saveInsightsReadThrows(p, ok) ==
    /\ pc[p] = "saveRead"
    /\ IF ok
       THEN /\ inv' = [inv EXCEPT ![p] =
                  [@ EXCEPT !.currentPreviousAdvice = previousAdvice,
                            !.timestamp = saveTimestamp,
                            !.adviceString = JSONstringify(inv[p].adviceData)]]
            /\ pc' = [pc EXCEPT ![p] = "saveWrite"]
            /\ UNCHANGED <<advice, error, loading, trace>>
       ELSE /\ advice' = [advice EXCEPT ![p] = NullAdvice]
            /\ error' = [error EXCEPT ![p] = <<"Error saving insights to Firestore">>]
            /\ loading' = [loading EXCEPT ![p] = FALSE]
            /\ pc' = [pc EXCEPT ![p] = "done"]
            /\ trace' = [trace EXCEPT ![p] = [@ EXCEPT !.persist = "readFailed"]]
            /\ UNCHANGED inv
    /\ UNCHANGED <<now, envVars, storeVars, listVars, addVars, historyVars, countVars>>

\* getDoc inside saveInsightsToFirestore returns (ok): the mapping is copied,
\* the timestamp taken, the advice serialized and updateDoc issued.  When the
\* read throws, the error is logged and the function returns.
saveInsightsRead(p, ok) ==
    /\ pc[p] = "saveRead"
    /\ IF ok
       THEN /\ inv' = [inv EXCEPT ![p] =
                  [@ EXCEPT !.currentPreviousAdvice = previousAdvice,
                            !.timestamp = saveTimestamp,
                            !.adviceString = JSONstringify(inv[p].adviceData)]]
            /\ pc' = [pc EXCEPT ![p] = "saveWrite"]
            /\ UNCHANGED <<error, loading, trace>>
       ELSE afterSave(p, "readFailed")
    /\ UNCHANGED <<now, envVars, storeVars, listVars, advice, addVars,
                   historyVars, countVars>>

\* Variant: the pointer is set but the record is not inserted.
saveInsightsUpdatePointerOnly(i) ==
    [mostRecentInsightsTimestamp |-> i.timestamp,
     previousAdvice |-> i.currentPreviousAdvice]

\* The two fields updateDoc replaces.
saveInsightsUpdate(i) ==
    [mostRecentInsightsTimestamp |-> i.timestamp,
     previousAdvice |-> (i.timestamp :> i.adviceString) @@ i.currentPreviousAdvice]

\* Variant: the save replaces the document by the two fields (a set without
\* merge) in place of updating them.
saveInsightsWriteReplaces(p, ok) ==
    /\ pc[p] = "saveWrite"
    /\ IF ok
       THEN /\ mostRecentInsightsTimestamp' =
                  saveInsightsUpdate(inv[p]).mostRecentInsightsTimestamp
            /\ previousAdvice' = saveInsightsUpdate(inv[p]).previousAdvice
            /\ actions' = EmptyMap
            /\ actionTimestamps' = EmptyMap
            /\ written' = written \cup {<<inv[p].timestamp, inv[p].adviceData>>}
            /\ reflected' = reflected \cup
                  { <<inv[p].newActions[i].action, inv[p].newActions[i].timestamp>> :
                      i \in 1..Len(inv[p].newActions) }
       ELSE UNCHANGED <<storeVars, historyVars>>
    /\ afterSave(p, IF ok THEN "landed" ELSE "writeFailed")
    /\ UNCHANGED <<now, envVars, listVars, advice, addVars, countVars>>

\* updateDoc lands (ok) or throws, which is logged; then the function returns.
saveInsightsWrite(p, ok) ==
    /\ pc[p] = "saveWrite"
    /\ IF ok
       THEN /\ mostRecentInsightsTimestamp' =
                  saveInsightsUpdate(inv[p]).mostRecentInsightsTimestamp
            /\ previousAdvice' = saveInsightsUpdate(inv[p]).previousAdvice
            /\ written' = written \cup {<<inv[p].timestamp, inv[p].adviceData>>}
            /\ reflected' = reflected \cup
                  { <<inv[p].newActions[i].action, inv[p].newActions[i].timestamp>> :
                      i \in 1..Len(inv[p].newActions) }
       ELSE UNCHANGED <<adviceStoreVars, historyVars>>
    /\ afterSave(p, IF ok THEN "landed" ELSE "writeFailed")
    /\ UNCHANGED <<now, envVars, actionStoreVars, listVars, advice, addVars, countVars>>

\* ----------------------------------------------------------- specifications

WithinCalls == adds + cycles < MaxCalls

\* One tab; every store call may fail and the service may answer anything.
Next ==
    \/ Tick
    \/ \E ok \in BOOLEAN : fetchUserData("t1", ok)
    \/ \E sub \in Submissions : WithinCalls /\ addActionRead("t1", sub[1], sub[2])
    \/ addActionWrite("t1")
    \/ (Len(userActions["t1"]) # 0 => WithinCalls) /\ handleGetAdviceStart("t1")
    \/ \E ok \in BOOLEAN : handleGetAdviceSelect("t1", ok)
    \/ \E ok \in BOOLEAN : handleGetAdvicePrevious("t1", ok)
    \/ \E r \in FetchOutcomes : handleGetAdviceFetch("t1", r)
    \/ \E ok \in BOOLEAN : saveInsightsRead("t1", ok)
    \/ \E ok \in BOOLEAN : saveInsightsWrite("t1", ok)

Spec == Init /\ [][Next]_vars

\* A call tab p's invocation is waiting for returns or fails.
Returns(p) ==
    \/ \E ok \in BOOLEAN : handleGetAdviceSelect(p, ok)
    \/ \E ok \in BOOLEAN : handleGetAdvicePrevious(p, ok)
    \/ \E r \in FetchOutcomes : handleGetAdviceFetch(p, r)
    \/ \E ok \in BOOLEAN : saveInsightsRead(p, ok)
    \/ \E ok \in BOOLEAN : saveInsightsWrite(p, ok)

\* The same steps within a smaller budget of calls.
WithinFairCalls == adds + cycles < MaxCalls - 2

NextFair ==
    \/ Tick
    \/ \E ok \in BOOLEAN : fetchUserData("t1", ok)
    \/ \E sub \in Submissions : WithinFairCalls /\ addActionRead("t1", sub[1], sub[2])
    \/ addActionWrite("t1")
    \/ (Len(userActions["t1"]) # 0 => WithinFairCalls) /\ handleGetAdviceStart("t1")
    \/ Returns("t1")

\* Every getDoc, fetch and updateDoc that was issued settles in the end.
SpecFair == Init /\ [][NextFair]_vars /\ WF_vars(Returns("t1"))

\* Two tabs of the same user, actions submitted in the first; the service,
\* when a key is configured, answers with fenced JSON or with prose.
TabOutcomes ==
    { [kind |-> "text", text |-> <<FenceJson, JsonLine, Fence>>],
      [kind |-> "text", text |-> <<Prose, Blank, Prose2>>] }

NextTabs ==
    \/ Tick
    \/ \E p \in Tabs : fetchUserData(p, TRUE)
    \/ \E p \in Submitters : \E sub \in Submissions :
          WithinCalls /\ addActionRead(p, sub[1], sub[2])
    \/ \E p \in Tabs : addActionWrite(p)
    \/ \E p \in Tabs : (Len(userActions[p]) # 0 => WithinCalls) /\ handleGetAdviceStart(p)
    \/ \E p \in Tabs : handleGetAdviceSelect(p, TRUE)
    \/ \E p \in Tabs : \E ok \in BOOLEAN : handleGetAdvicePrevious(p, ok)
    \/ \E p \in Tabs : \E r \in TabOutcomes : handleGetAdviceFetch(p, r)
    \/ \E p \in Tabs : saveInsightsRead(p, TRUE)
    \/ \E p \in Tabs : \E ok \in BOOLEAN : saveInsightsWrite(p, ok)

SpecTabs == Init /\ [][NextTabs]_vars

\* Two tabs of the same user, both submitting actions; the advice button is
\* left alone.  A name can be submitted again with another score.
Resubmissions == Submissions \cup { <<"Drive", 30>> }

NextAdds ==
    \/ Tick
    \/ \E p \in Tabs : fetchUserData(p, TRUE)
    \/ \E p \in Tabs : \E sub \in Resubmissions :
          WithinCalls /\ addActionRead(p, sub[1], sub[2])
    \/ \E p \in Tabs : addActionWrite(p)

SpecAdds == Init /\ [][NextAdds]_vars

\* ------------------------------------------------------------------ signup
\* AuthContext.signup: the account is created, the user document is read and,
\* when there is none, written.

\* Addresses typed into the form, and the uid Firebase Auth gives each account
\* (one account per address, whatever the case of its letters).
Emails == { <<"A", "n", "n", "@", "x">>, <<"a", "n", "n", "@", "x">>, <<"b", "o", "@", "x">> }
UidOf(email) == IF toLowerCase(email) = <<"a", "n", "n", "@", "x">> THEN "u1" ELSE "u2"

\* The document setDoc writes.
NewUserDoc(email, t) ==
    [email |-> toLowerCase(email),
     createdAt |-> toISOString(t),
     actions |-> EmptyMap,
     actionTimestamps |-> EmptyMap,
     previousAdvice |-> EmptyMap,
     mostRecentInsightsTimestamp |-> Null,
     friends |-> <<>>]

\* A document another client of the project wrote under a uid before the
\* account's signup ran.
ForeignDoc == [NewUserDoc(<<"b", "o", "@", "x">>, 0) EXCEPT !.friends = <<"u1">>]

PipelineIdle ==
    /\ Signup
    /\ apiKey = TRUE
    /\ call = NoCall
    /\ result = Pending

InitSignup ==
    /\ PipelineIdle
    /\ accounts = {}
    /\ users \in { EmptyMap, "u2" :> ForeignDoc }
    /\ signupPc = [c \in SignupCalls |-> "idle"]
    /\ signupLocal = [c \in SignupCalls |-> NoSignup]
    /\ ScriptLoaded
    /\ WorkerIdle
    /\ PopupClosed

outsideAuth == <<pipelineVars, call, result, bannerVars, workerVars, popupVars, addFriend>>

\* createUserWithEmailAndPassword settles: it throws when the address has an
\* account (or the request fails), and signup returns the message.
signupCreateUser(c, email, ok) ==
    /\ signupPc[c] = "idle"
    /\ IF ok /\ UidOf(email) \notin accounts
       THEN /\ accounts' = accounts \cup {UidOf(email)}
            /\ signupLocal' = [signupLocal EXCEPT ![c] =
                  [NoSignup EXCEPT !.email = email, !.uid = UidOf(email)]]
            /\ signupPc' = [signupPc EXCEPT ![c] = "getDoc"]
       ELSE /\ signupLocal' = [signupLocal EXCEPT ![c] =
                  [NoSignup EXCEPT !.email = email, !.error = <<"auth error">>]]
            /\ signupPc' = [signupPc EXCEPT ![c] = "returned"]
            /\ UNCHANGED accounts
    /\ UNCHANGED <<users, outsideAuth>>

\* getDoc returns (ok) or throws.
signupGetDoc(c, ok) ==
    /\ signupPc[c] = "getDoc"
    /\ IF ~ok
       THEN /\ signupLocal' = [signupLocal EXCEPT ![c] = [@ EXCEPT !.error = <<"firestore error">>]]
            /\ signupPc' = [signupPc EXCEPT ![c] = "returned"]
       ELSE IF signupLocal[c].uid \in DOMAIN users
       THEN /\ signupLocal' = [signupLocal EXCEPT ![c] = [@ EXCEPT !.user = signupLocal[c].uid]]
            /\ signupPc' = [signupPc EXCEPT ![c] = "returned"]
       ELSE /\ signupPc' = [signupPc EXCEPT ![c] = "setDoc"]
            /\ UNCHANGED signupLocal
    /\ UNCHANGED <<accounts, users, outsideAuth>>

\* setDoc lands (ok) or throws.
signupSetDoc(c, ok) ==
    /\ signupPc[c] = "setDoc"
    /\ IF ok
       THEN /\ users' = (signupLocal[c].uid :> NewUserDoc(signupLocal[c].email, now)) @@ users
            /\ signupLocal' = [signupLocal EXCEPT ![c] = [@ EXCEPT !.user = signupLocal[c].uid]]
       ELSE /\ signupLocal' = [signupLocal EXCEPT ![c] = [@ EXCEPT !.error = <<"firestore error">>]]
            /\ UNCHANGED users
    /\ signupPc' = [signupPc EXCEPT ![c] = "returned"]
    /\ UNCHANGED <<accounts, outsideAuth>>

NextSignup ==
    \/ \E c \in SignupCalls : \E email \in Emails : \E ok \in BOOLEAN :
          signupCreateUser(c, email, ok)
    \/ \E c \in SignupCalls : \E ok \in BOOLEAN : signupGetDoc(c, ok)
    \/ \E c \in SignupCalls : \E ok \in BOOLEAN : signupSetDoc(c, ok)

SpecSignup == InitSignup /\ [][NextSignup]_vars

\* ------------------------------------------ prompt optimizer content script
\* The banner of the content script: checkPrompt, the debounce, the banner's
\* buttons, handleOptimizeClick and the timeouts.  A text is the sequence of
\* its UTF-16 code units; a timer is the ms left until it fires.

MaxEvents == 4

Space == 32
Repeat(code, n) == [i \in 1..n |-> code]

\* What the user may have in the prompt field: nothing, 'hi', 99 and 100
\* letters, 120 other letters, and 98 letters between spaces.
Texts ==
    { <<>>, <<104, 105>>, Repeat(97, 99), Repeat(97, 100), Repeat(98, 120),
      <<Space>> \o Repeat(97, 98) \o <<Space, Space>> }

\* String.prototype.trim on such a text.
trim(text) ==
    LET inked == { i \in 1..Len(text) : text[i] # Space }
    IN IF inked = {} THEN <<>>
       ELSE SubSeq(text, CHOOSE i \in inked : \A j \in inked : i <= j,
                         CHOOSE i \in inked : \A j \in inked : i >= j)

getPromptText(text) == trim(text)

\* hashPrompt: hash = ((hash << 5) - hash) + char over the code units, kept
\* to 32 bits; that is the sum of char[i] * 31^(n-i) modulo 2^32.  A 32-bit
\* word is held as its four bytes, lowest first (toString is one-to-one on
\* them), and the loop is evaluated by halves of the text.
Byte == 256
Word(n) == <<n % Byte, (n \div Byte) % Byte, 0, 0>>

\* x + y and x * y modulo 2^32.
WordAdd(x, y) ==
    LET c1 == x[1] + y[1]
        c2 == x[2] + y[2] + (c1 \div Byte)
        c3 == x[3] + y[3] + (c2 \div Byte)
        c4 == x[4] + y[4] + (c3 \div Byte)
    IN <<c1 % Byte, c2 % Byte, c3 % Byte, c4 % Byte>>

WordMul(x, y) ==
    LET c1 == x[1] * y[1]
        c2 == x[1] * y[2] + x[2] * y[1] + (c1 \div Byte)
        c3 == x[1] * y[3] + x[2] * y[2] + x[3] * y[1] + (c2 \div Byte)
        c4 == x[1] * y[4] + x[2] * y[3] + x[3] * y[2] + x[4] * y[1] + (c3 \div Byte)
    IN <<c1 % Byte, c2 % Byte, c3 % Byte, c4 % Byte>>

\* 31^n modulo 2^32: n turns of (hash << 5) - hash.
RECURSIVE Shifted(_)
Shifted(n) ==
    IF n = 0 THEN Word(1)
    ELSE LET half == Shifted(n \div 2)
             square == WordMul(half, half)
         IN IF n % 2 = 0 THEN square ELSE WordMul(square, Word(31))

\* The loop over the code units a..b, begun with hash 0.
RECURSIVE hashSpan(_, _, _)
hashSpan(text, a, b) ==
    IF a > b THEN Word(0)
    ELSE IF a = b THEN Word(text[a])
    ELSE LET mid == (a + b) \div 2
         IN WordAdd(WordMul(hashSpan(text, a, mid), Shifted(b - mid)),
                    hashSpan(text, mid + 1, b))

hashPrompt(text) == hashSpan(text, 1, Len(text))

PromptHashes == [t \in Texts |-> hashPrompt(getPromptText(t))]

outsideBanner == <<pipelineVars, call, result, authVars, workerVars, popupVars, addFriend>>

\* removeBanner
bannerRemoved ==
    /\ dom' = dom \ {banner}
    /\ banner' = Null
    /\ content' = "none"

\* showOptimizationBanner, reached from checkPrompt with bannerShown false.
showOptimizationBanner ==
    IF state.isProcessing
    THEN UNCHANGED <<banner, dom, content, hideTimers, nextBanner>>
    ELSE /\ banner' = <<nextBanner>>
         /\ dom' = (dom \ {banner}) \cup { <<nextBanner>> }
         /\ content' = "offer"
         /\ hideTimers' = hideTimers \cup
               { [left |-> BANNER_AUTO_HIDE_MS, armedFor |-> <<nextBanner>>] }
         /\ nextBanner' = nextBanner + 1

\* checkPrompt; found is whether findPromptField found a field.
checkPrompt(found) ==
    LET promptText == getPromptText(fieldText)
        promptHash == PromptHashes[fieldText]
    IN IF ~found
       THEN UNCHANGED <<state, banner, dom, content, hideTimers, nextBanner>>
       ELSE IF Len(promptText) < MIN_PROMPT_LENGTH
       THEN IF state.bannerShown
            THEN /\ bannerRemoved
                 /\ state' = [state EXCEPT !.bannerShown = FALSE]
                 /\ UNCHANGED <<hideTimers, nextBanner>>
            ELSE UNCHANGED <<state, banner, dom, content, hideTimers, nextBanner>>
       ELSE IF promptHash = state.lastPromptHash
       THEN UNCHANGED <<state, banner, dom, content, hideTimers, nextBanner>>
       ELSE IF state.bannerShown
       THEN /\ state' = [state EXCEPT !.currentPrompt = promptText,
                                      !.lastPromptHash = promptHash]
            /\ UNCHANGED <<banner, dom, content, hideTimers, nextBanner>>
       ELSE /\ showOptimizationBanner
            /\ state' = [state EXCEPT !.currentPrompt = promptText,
                                      !.lastPromptHash = promptHash,
                                      !.bannerShown = ~state.isProcessing]

\* An input, paste or keyup event: the field holds text, and
\* debouncedCheckPrompt clears the timer and arms it again.
debouncedCheckPromptKept(text) ==
    /\ events < MaxEvents
    /\ fieldText' = text
    /\ debounceTimer' = IF debounceTimer = Null THEN <<DEBOUNCE_MS>> ELSE debounceTimer
    /\ quiet' = 0
    /\ events' = events + 1
    /\ UNCHANGED <<state, banner, dom, content, urlChanged, initTimer, hideTimers,
                   removeTimers, optimizing, nextBanner, outsideBanner>>

debouncedCheckPrompt(text) ==
    /\ events < MaxEvents
    /\ fieldText' = text
    /\ debounceTimer' = <<DEBOUNCE_MS>>
    /\ quiet' = 0
    /\ events' = events + 1
    /\ UNCHANGED <<state, banner, dom, content, urlChanged, initTimer, hideTimers,
                   removeTimers, optimizing, nextBanner, outsideBanner>>

\* The debounce timer fires.
debounceFires(found) ==
    /\ debounceTimer = <<0>>
    /\ debounceTimer' = Null
    /\ checkPrompt(found)
    /\ UNCHANGED events
    /\ UNCHANGED <<fieldText, urlChanged, initTimer, removeTimers, optimizing, quiet,
                   outsideBanner>>

\* setTimeout(checkPrompt, 1000) of init fires.
initialCheck(found) ==
    /\ initTimer = <<0>>
    /\ initTimer' = Null
    /\ checkPrompt(found)
    /\ UNCHANGED events
    /\ UNCHANGED <<fieldText, urlChanged, debounceTimer, removeTimers, optimizing,
                   quiet, outsideBanner>>

\* The page navigates (a single-page application changes its URL).
navigate ==
    /\ events < MaxEvents
    /\ ~urlChanged
    /\ urlChanged' = TRUE
    /\ events' = events + 1
    /\ UNCHANGED <<state, banner, dom, content, fieldText, debounceTimer, initTimer,
                   hideTimers, removeTimers, optimizing, nextBanner, quiet,
                   outsideBanner>>

\* The interval of init sees the new URL.
urlCheck ==
    /\ urlChanged
    /\ urlChanged' = FALSE
    /\ bannerRemoved
    /\ state' = [state EXCEPT !.bannerShown = FALSE, !.lastPromptHash = Null]
    /\ debounceTimer' = <<DEBOUNCE_MS>>
    /\ UNCHANGED events
    /\ UNCHANGED <<fieldText, initTimer, hideTimers, removeTimers, optimizing,
                   nextBanner, quiet, outsideBanner>>

\* A click on 'Not Now' (while the offer is shown) or on the close button.
dismiss ==
    /\ events < MaxEvents
    /\ banner \in dom
    /\ bannerRemoved
    /\ state' = [state EXCEPT !.bannerShown = FALSE]
    /\ events' = events + 1
    /\ UNCHANGED <<fieldText, urlChanged, debounceTimer, initTimer, hideTimers,
                   removeTimers, optimizing, nextBanner, quiet, outsideBanner>>

\* handleOptimizeClick up to its await: a click on 'Yes, Optimize'.
handleOptimizeClick ==
    /\ events < MaxEvents
    /\ banner \in dom
    /\ content = "offer"
    /\ ~state.isProcessing
    /\ state' = [state EXCEPT !.isProcessing = TRUE]
    /\ content' = "processing"
    /\ optimizing' = [at |-> "delay", left |-> PROCESSING_MS]
    /\ events' = events + 1
    /\ UNCHANGED <<banner, dom, fieldText, urlChanged, debounceTimer, initTimer,
                   hideTimers, removeTimers, nextBanner, quiet, outsideBanner>>

\* The processing delay is over: the clipboard write is awaited.
optimizeDelayOver ==
    /\ optimizing = [at |-> "delay", left |-> 0]
    /\ optimizing' = [at |-> "clipboard", left |-> 0]
    /\ UNCHANGED events
    /\ UNCHANGED <<state, banner, dom, content, fieldText, urlChanged, debounceTimer,
                   initTimer, hideTimers, removeTimers, nextBanner, quiet,
                   outsideBanner>>

\* handleOptimizationSuccess after the clipboard write settled, and the
\* finally of handleOptimizeClick.
handleOptimizationSuccess(copied) ==
    /\ optimizing.at = "clipboard"
    /\ optimizing' = [at |-> "idle", left |-> 0]
    /\ content' = IF copied /\ banner # Null THEN "success" ELSE content
    /\ removeTimers' = removeTimers \cup
          { [left |-> REMOVE_AFTER_MS, armedFor |-> banner] }
    /\ state' = [state EXCEPT !.isProcessing = FALSE]
    /\ UNCHANGED events
    /\ UNCHANGED <<banner, dom, fieldText, urlChanged, debounceTimer, initTimer,
                   hideTimers, nextBanner, quiet, outsideBanner>>

\* An auto-hide timeout fires.
autoHideFires(t) ==
    /\ t \in hideTimers
    /\ t.left = 0
    /\ hideTimers' = hideTimers \ {t}
    /\ IF state.bannerShown /\ ~state.isProcessing
       THEN /\ bannerRemoved
            /\ state' = [state EXCEPT !.bannerShown = FALSE]
       ELSE UNCHANGED <<state, banner, dom, content>>
    /\ UNCHANGED events
    /\ UNCHANGED <<fieldText, urlChanged, debounceTimer, initTimer, removeTimers,
                   optimizing, nextBanner, quiet, outsideBanner>>

\* A post-success timeout fires.
removeAfterSuccess(t) ==
    /\ t \in removeTimers
    /\ t.left = 0
    /\ removeTimers' = removeTimers \ {t}
    /\ bannerRemoved
    /\ state' = [state EXCEPT !.bannerShown = FALSE]
    /\ UNCHANGED events
    /\ UNCHANGED <<fieldText, urlChanged, debounceTimer, initTimer, hideTimers,
                   optimizing, nextBanner, quiet, outsideBanner>>

\* The ms left on every armed timer.
ArmedTimers ==
    { debounceTimer[i] : i \in DOMAIN debounceTimer }
       \cup { initTimer[i] : i \in DOMAIN initTimer }
       \cup { t.left : t \in hideTimers \cup removeTimers }
       \cup (IF optimizing.at = "delay" THEN {optimizing.left} ELSE {})

\* Time passes until the next timer is due.
Elapse(d) ==
    /\ \A left \in ArmedTimers : d <= left
    /\ d > 0
    /\ debounceTimer' = [i \in DOMAIN debounceTimer |-> debounceTimer[i] - d]
    /\ initTimer' = [i \in DOMAIN initTimer |-> initTimer[i] - d]
    /\ hideTimers' = { [t EXCEPT !.left = @ - d] : t \in hideTimers }
    /\ removeTimers' = { [t EXCEPT !.left = @ - d] : t \in removeTimers }
    /\ optimizing' = IF optimizing.at = "delay"
                     THEN [optimizing EXCEPT !.left = @ - d] ELSE optimizing
    /\ quiet' = IF quiet + d > DEBOUNCE_MS THEN DEBOUNCE_MS ELSE quiet + d
    /\ UNCHANGED events
    /\ UNCHANGED <<state, banner, dom, content, fieldText, urlChanged, nextBanner,
                   outsideBanner>>

InitBanner ==
    /\ PipelineIdle
    /\ AuthIdle
    /\ ScriptLoaded
    /\ WorkerIdle
    /\ PopupClosed

NextBanner ==
    \/ \E text \in Texts : debouncedCheckPrompt(text)
    \/ \E found \in BOOLEAN : debounceFires(found)
    \/ \E found \in BOOLEAN : initialCheck(found)
    \/ navigate
    \/ urlCheck
    \/ dismiss
    \/ handleOptimizeClick
    \/ optimizeDelayOver
    \/ \E copied \in BOOLEAN : handleOptimizationSuccess(copied)
    \/ \E t \in hideTimers : autoHideFires(t)
    \/ \E t \in removeTimers : removeAfterSuccess(t)
    \/ \E d \in ArmedTimers : Elapse(d)

SpecBanner == InitBanner /\ [][NextBanner]_vars

\* -------------------------------------------------------- background worker
\* background.js: createOffscreenDocument, called at startup and by the
\* message listener, which does not wait for it.

AuthActions ==
    {"signInWithEmailPassword", "createUserWithEmailPassword", "signOut",
     "getIdToken", "getCurrentUser"}
MessageActions == AuthActions \cup {"checkAuthState"}

outsideWorker == <<pipelineVars, call, result, authVars, bannerVars, popupVars, addFriend>>

\* The worker starts: createOffscreenDocument() is called and asks
\* chrome.offscreen.hasDocument.
workerStartup ==
    /\ worker["startup"].at = "idle"
    /\ worker' = [worker EXCEPT !["startup"] =
          [NotCalled EXCEPT !.at = "asked", !.action = "startup"]]
    /\ UNCHANGED <<offscreen, outsideWorker>>

\* The onMessage listener: an auth message calls createOffscreenDocument,
\* any other message is left alone.
onMessage(c, action) ==
    /\ c # "startup"
    /\ worker["startup"].at # "idle"
    /\ worker[c].at = "idle"
    /\ worker' = [worker EXCEPT ![c] =
          [NotCalled EXCEPT !.at = IF action \in AuthActions THEN "asked" ELSE "returned",
                            !.action = action]]
    /\ UNCHANGED <<offscreen, outsideWorker>>

\* The browser answers hasDocument.
hasDocumentAnswered(c) ==
    /\ worker[c].at = "asked"
    /\ worker' = [worker EXCEPT ![c] = [@ EXCEPT !.at = "answered", !.hasDocument = offscreen]]
    /\ UNCHANGED <<offscreen, outsideWorker>>

\* createOffscreenDocument resumes with the answer: it returns, or invokes
\* chrome.offscreen.createDocument.
createOffscreenDocument(c) ==
    /\ worker[c].at = "answered"
    /\ worker' = [worker EXCEPT ![c] =
          [@ EXCEPT !.at = IF worker[c].hasDocument THEN "returned" ELSE "creating"]]
    /\ UNCHANGED <<offscreen, outsideWorker>>

\* The browser settles createDocument: the document exists from now on, or
\* the call is rejected because one exists (only one offscreen document may
\* be open) and the rejection goes to console.error.
createDocumentSettled(c) ==
    /\ worker[c].at = "creating"
    /\ offscreen' = TRUE
    /\ worker' = [worker EXCEPT ![c] = [@ EXCEPT !.at = "returned", !.failed = offscreen]]
    /\ UNCHANGED outsideWorker

InitWorker ==
    /\ PipelineIdle
    /\ AuthIdle
    /\ ScriptLoaded
    /\ WorkerIdle
    /\ PopupClosed

NextWorker ==
    \/ workerStartup
    \/ \E c \in WorkerCalls : \E action \in MessageActions : onMessage(c, action)
    \/ \E c \in WorkerCalls : hasDocumentAnswered(c)
    \/ \E c \in WorkerCalls : createOffscreenDocument(c)
    \/ \E c \in WorkerCalls : createDocumentSettled(c)

SpecWorker == InitWorker /\ [][NextWorker]_vars

\* -------------------------------------------------------------------- popup
\* The extension's popup and the offscreen document that holds Firebase Auth.
\* A user is <<uid, email>>; an empty sequence is null (or a key that
\* chrome.storage does not hold).

MaxAuthOps == 3

Ann == <<"u1", "ann@x">>
Token == <<"token">>

outsidePopup == <<pipelineVars, call, result, authVars, bannerVars, workerVars, addFriend>>

sent(k) == [requests EXCEPT ![k] = [NoRequest EXCEPT !.at = "sent"]]

\* The popup opens (DOMContentLoaded): checkAuthState sends getCurrentUser and
\* the saved state is asked of chrome.storage.local.  Ann may have signed in
\* in an earlier opening.
InitPopup ==
    /\ PipelineIdle
    /\ AuthIdle
    /\ ScriptLoaded
    /\ WorkerIdle
    /\ authUser \in { <<>>, Ann }
    /\ popup = IF authUser = <<>> THEN NoSession
               ELSE [NoSession EXCEPT !.userEmail = <<Ann[2]>>, !.userUid = <<Ann[1]>>,
                                      !.idToken = Token]
    /\ requests = [[k \in RequestKinds |-> NoRequest] EXCEPT
                      !["getCurrentUser"] = [NoRequest EXCEPT !.at = "sent"]]
    /\ authEvents = <<>>
    /\ loadPending = TRUE
    /\ authOps = 0
    /\ signedOut = FALSE
    /\ addFriend = [p \in Components |-> NotAdding]

\* getAuthToken up to its await (one getIdToken request outstanding at a time).
getAuthToken(user) ==
    IF user # <<>> /\ requests["getIdToken"].at = "idle"
    THEN sent("getIdToken")
    ELSE requests

\* The callback of chrome.storage.local.get.
storageLoaded ==
    /\ loadPending
    /\ loadPending' = FALSE
    /\ IF popup.userEmail # <<>> /\ popup.userUid # <<>>
       THEN /\ popup' = [popup EXCEPT !.currentUser = popup.userUid \o popup.userEmail,
                                      !.currentIdToken = popup.idToken]
            /\ requests' = getAuthToken(popup.userUid \o popup.userEmail)
       ELSE UNCHANGED <<popup, requests>>
    /\ UNCHANGED <<authUser, authEvents, authOps, signedOut, outsidePopup>>

\* A click on Sign In or Create Account with an email and a password, and a
\* click on Sign Out: the request is sent.  updateAuthUI shows the form when
\* currentUser is null and the Sign Out button otherwise.
click(k) ==
    /\ k \in {"signInWithEmailPassword", "createUserWithEmailPassword", "signOut"}
    /\ k = "signOut" <=> popup.currentUser # <<>>
    /\ authOps < MaxAuthOps
    /\ requests[k].at = "idle"
    /\ requests' = sent(k)
    /\ authOps' = authOps + 1
    /\ UNCHANGED <<authUser, popup, authEvents, loadPending, signedOut, outsidePopup>>

\* The offscreen document's listener handles request k; ok is whether Firebase
\* accepts the credentials, or the sign-out.  onAuthStateChanged sends its
\* message when the user changes.
offscreenHandles(k, ok) ==
    /\ requests[k].at = "sent"
    /\ CASE k \in {"signInWithEmailPassword", "createUserWithEmailPassword"} ->
              IF ok
              THEN /\ authUser' = Ann
                   /\ authEvents' = IF authUser = <<>> THEN Append(authEvents, TRUE) ELSE authEvents
                   /\ requests' = [requests EXCEPT ![k] = [at |-> "token", response |-> NoRequest.response]]
                   /\ signedOut' = FALSE
              ELSE /\ requests' = [requests EXCEPT ![k] = [at |-> "answered", response |-> NoRequest.response]]
                   /\ UNCHANGED <<authUser, authEvents, signedOut>>
         [] k = "signOut" ->
              IF ok
              THEN /\ authUser' = <<>>
                   /\ authEvents' = IF authUser # <<>> THEN Append(authEvents, FALSE) ELSE authEvents
                   /\ requests' = [requests EXCEPT ![k] =
                         [at |-> "answered", response |-> [NoRequest.response EXCEPT !.success = TRUE]]]
                   /\ UNCHANGED signedOut
              ELSE /\ requests' = [requests EXCEPT ![k] = [at |-> "answered", response |-> NoRequest.response]]
                   /\ UNCHANGED <<authUser, authEvents, signedOut>>
         [] OTHER ->
              /\ requests' = [requests EXCEPT ![k] =
                    [at |-> IF authUser = <<>> THEN "answered" ELSE "token",
                     response |-> NoRequest.response]]
              /\ UNCHANGED <<authUser, authEvents, signedOut>>
    /\ UNCHANGED <<popup, loadPending, authOps, outsidePopup>>

\* getIdToken() resolves in the offscreen document and the response is sent;
\* getCurrentUser reads auth.currentUser again and answers an error when it
\* has become null.
tokenResolved(k) ==
    /\ requests[k].at = "token"
    /\ requests' = [requests EXCEPT ![k] =
          [at |-> "answered",
           response |-> IF k = "getCurrentUser" /\ authUser = <<>>
                        THEN NoRequest.response
                        ELSE [success |-> TRUE,
                              user |-> IF k = "getIdToken" THEN <<>>
                                       ELSE IF k = "getCurrentUser" THEN authUser ELSE Ann,
                              idToken |-> Token]]]
    /\ UNCHANGED <<authUser, popup, authEvents, loadPending, authOps, signedOut, outsidePopup>>

\* chrome.storage.local.set with the session.
stored(session) ==
    [session EXCEPT !.userEmail = <<session.currentUser[2]>>,
                    !.userUid = <<session.currentUser[1]>>,
                    !.idToken = session.currentIdToken]

\* The popup resumes with the response to request k.
responseReceived(k) ==
    /\ requests[k].at = "answered"
    /\ requests' = [requests EXCEPT ![k] = NoRequest]
    /\ LET response == requests[k].response
       IN CASE k \in {"signInWithEmailPassword", "createUserWithEmailPassword"} ->
                 /\ popup' = IF response.success
                             THEN stored([popup EXCEPT !.currentUser = response.user,
                                                       !.currentIdToken = response.idToken])
                             ELSE popup
                 /\ UNCHANGED signedOut
            [] k = "signOut" ->
                 /\ popup' = IF response.success THEN NoSession ELSE popup
                 /\ signedOut' = (response.success \/ signedOut)
            [] k = "getCurrentUser" ->
                 /\ popup' = IF response.success /\ response.user # <<>>
                             THEN stored([popup EXCEPT !.currentUser = response.user,
                                                       !.currentIdToken = response.idToken])
                             ELSE popup
                 /\ UNCHANGED signedOut
            [] k = "getIdToken" ->
                 /\ popup' = IF response.success
                             THEN [popup EXCEPT !.currentIdToken = response.idToken,
                                                !.idToken = response.idToken]
                             ELSE popup
                 /\ UNCHANGED signedOut
    /\ UNCHANGED <<authUser, authEvents, loadPending, authOps, outsidePopup>>

\* The popup's listener receives authStateChanged.
authStateChanged ==
    /\ authEvents # <<>>
    /\ authEvents' = Tail(authEvents)
    /\ IF Head(authEvents)
       THEN /\ popup' = [popup EXCEPT !.currentUser = Ann]
            /\ requests' = getAuthToken(Ann)
            /\ UNCHANGED signedOut
       ELSE /\ popup' = NoSession
            /\ signedOut' = (authUser = <<>>)
            /\ UNCHANGED requests
    /\ UNCHANGED <<authUser, loadPending, authOps, outsidePopup>>

NextPopup ==
    \/ storageLoaded
    \/ \E k \in RequestKinds : click(k)
    \/ \E k \in RequestKinds : \E ok \in BOOLEAN : offscreenHandles(k, ok)
    \/ \E k \in RequestKinds : tokenResolved(k)
    \/ \E k \in RequestKinds : responseReceived(k)
    \/ authStateChanged

SpecPopup == InitPopup /\ [][NextPopup]_vars

\* --------------------------------------------------------------- add friend
\* handleAddFriend of the Dashboard and of the Leaderboard (the same code up
\* to the Leaderboard's refresh, which only reads), for the signed-in user u1.

Self == "u1"
Gap == " "

\* The documents of the platform's users; u1's own may be missing.
Platform ==
    ("u2" :> NewUserDoc(<<"b", "o", "@", "x">>, 0))
       @@ ("u3" :> NewUserDoc(<<"c", "y", "@", "x">>, 0))

\* What is typed into the form: a friend's address with a capital, another
\* with a space before it, the user's own, an unknown one and a blank.
FriendEmails ==
    { <<"B", "o", "@", "x">>, <<Gap, "c", "y", "@", "x">>,
      <<"A", "n", "n", "@", "x">>, <<"z", "@", "x">>, <<Gap>> }

\* String.prototype.trim on an address.
trimmed(chars) ==
    LET inked == { i \in 1..Len(chars) : chars[i] # Gap }
    IN IF inked = {} THEN <<>>
       ELSE SubSeq(chars, CHOOSE i \in inked : \A j \in inked : i <= j,
                          CHOOSE i \in inked : \A j \in inked : i >= j)

\* query(usersRef, where('email', '==', searchEmail)): the matching ids.
whereEmail(searchEmail) == { u \in DOMAIN users : users[u].email = searchEmail }

InitFriends ==
    /\ PipelineIdle
    /\ ScriptLoaded
    /\ WorkerIdle
    /\ PopupClosed
    /\ accounts = {"u1", "u2", "u3"}
    /\ users \in { Platform, (Self :> NewUserDoc(<<"A", "n", "n", "@", "x">>, 0)) @@ Platform }
    /\ signupPc = [c \in SignupCalls |-> "idle"]
    /\ signupLocal = [c \in SignupCalls |-> NoSignup]

outsideFriends ==
    <<pipelineVars, call, result, accounts, signupPc, signupLocal, bannerVars,
      workerVars, popupVars>>

ends(p, message) ==
    [addFriend EXCEPT ![p] = [@ EXCEPT !.at = "idle", !.addFriendError = message]]

\* The form is submitted (the button is disabled while addingFriend): a blank
\* address is refused, otherwise the query is sent.
handleAddFriendSubmit(p, email) ==
    /\ addFriend[p].at = "idle"
    /\ addFriend' = IF trimmed(email) = <<>>
                    THEN [addFriend EXCEPT ![p] =
                            [NotAdding EXCEPT !.addFriendError = "Please enter an email address"]]
                    ELSE [addFriend EXCEPT ![p] =
                            [NotAdding EXCEPT !.at = "getDocs", !.friendEmail = email]]
    /\ UNCHANGED <<users, outsideFriends>>

\* getDocs returns (ok) or throws.
handleAddFriendFound(p, ok) ==
    /\ addFriend[p].at = "getDocs"
    /\ LET found == whereEmail(toLowerCase(trimmed(addFriend[p].friendEmail)))
       IN IF ~ok
          THEN addFriend' = ends(p, "Failed to add friend. Please try again.")
          ELSE IF found = {}
          THEN addFriend' = ends(p, "User with this email does not exist on the platform")
          ELSE \E friendId \in found :
                  addFriend' =
                     IF friendId = Self
                     THEN ends(p, "You cannot add yourself as a friend")
                     ELSE [addFriend EXCEPT ![p] = [@ EXCEPT !.at = "getDoc", !.friendId = friendId]]
    /\ UNCHANGED <<users, outsideFriends>>

\* getDoc of the user's own document returns without the includes test.
handleAddFriendReadAll(p, ok) ==
    /\ addFriend[p].at = "getDoc"
    /\ addFriend' =
          IF ~ok THEN ends(p, "Failed to add friend. Please try again.")
          ELSE IF Self \notin DOMAIN users THEN ends(p, "")
          ELSE [addFriend EXCEPT ![p] =
                  [@ EXCEPT !.at = "updateDoc", !.currentFriends = users[Self].friends]]
    /\ UNCHANGED <<users, outsideFriends>>

\* getDoc of the user's own document returns (ok) or throws.
handleAddFriendRead(p, ok) ==
    /\ addFriend[p].at = "getDoc"
    /\ addFriend' =
          IF ~ok THEN ends(p, "Failed to add friend. Please try again.")
          ELSE IF Self \notin DOMAIN users THEN ends(p, "")
          ELSE IF \E i \in 1..Len(users[Self].friends) :
                     users[Self].friends[i] = addFriend[p].friendId
          THEN ends(p, "This user is already in your friends list")
          ELSE [addFriend EXCEPT ![p] =
                  [@ EXCEPT !.at = "updateDoc", !.currentFriends = users[Self].friends]]
    /\ UNCHANGED <<users, outsideFriends>>

\* updateDoc lands (ok) or throws.
handleAddFriendWrite(p, ok) ==
    /\ addFriend[p].at = "updateDoc"
    /\ IF ok
       THEN /\ users' = [users EXCEPT ![Self] =
                  [@ EXCEPT !.friends = Append(addFriend[p].currentFriends, addFriend[p].friendId)]]
            /\ addFriend' = ends(p, "")
       ELSE /\ addFriend' = ends(p, "Failed to add friend. Please try again.")
            /\ UNCHANGED users
    /\ UNCHANGED outsideFriends

NextFriends ==
    \/ \E p \in Components : \E email \in FriendEmails : handleAddFriendSubmit(p, email)
    \/ \E p \in Components : \E ok \in BOOLEAN : handleAddFriendFound(p, ok)
    \/ \E p \in Components : \E ok \in BOOLEAN : handleAddFriendRead(p, ok)
    \/ \E p \in Components : \E ok \in BOOLEAN : handleAddFriendWrite(p, ok)

SpecFriends == InitFriends /\ [][NextFriends]_vars

\* ------------------------------------------------- functions on their own
\* The functions of the Dashboard that depend on their argument only, each
\* applied once to an argument drawn from a bounded set.

MaxList == 3

Decimal(neg, whole, tenth) == [neg |-> neg, whole |-> whole, tenth |-> tenth]

\* Answers of the scoring service, as the regular expression matched them.
ScoreTexts ==
    { Decimal(FALSE, 0, 1), Decimal(FALSE, 0, 2), Decimal(FALSE, 0, 3),
      Decimal(FALSE, 0, 0), Decimal(TRUE, 5, 0), Decimal(FALSE, 10, 0),
      Decimal(FALSE, 24, 9), Decimal(FALSE, 25, 0), Decimal(FALSE, 50, 0),
      Decimal(FALSE, 50, 1), Decimal(FALSE, 62, 0) }

ScoreLists == UNION { [1..k -> ScoreTexts] : k \in 1..MaxList }

\* The new actions with these scores, named by their place.
Scores == [t \in ScoreTexts |-> parseFloat(t)]

scored(texts) ==
    [i \in 1..Len(texts) |->
        [action |-> i, sustainabilityScore |-> Scores[texts[i]]]]

\* Words a user types into the action field.
Words ==
    { <<"C","a","r">>, <<"D","R","I","V","E">>, <<"b","i","k","e">>,
      <<"L","i","g","h","t">>, <<"A","C">>, <<"h","e","a","t","i","n","g">>,
      <<"F","o","o","d">>, <<"e","a","t">>, <<"M","E","A","L">>,
      <<"W","a","s","t","e">>, <<"R","e","c","y","c","l","e">>,
      <<"c","o","m","p","o","s","t">>, <<"T","r","e","e">>,
      <<"P","L","A","N","T">>, <<"w","a","l","k">>, <<"t","r","e">>, <<>> }

\* Action names: a word, or two words with a space between.
ActionNames == Words \cup { v \o <<" ">> \o w : v, w \in Words }

\* Actions as fetchUserData lists them, with whole-number scores.
ListedActions ==
    { [action |-> a[1], category |-> a[2], sustainabilityScore |-> v, timestamp |-> Null] :
        a \in { <<"Drive", "Transportation">>, <<"Light", "Energy">>,
                <<"Meal", "Food">>, <<"Compost", "Waste">> },
        v \in {-5, 0, 5, 62} }

\* Lists of new actions: every action has its own name.
ActionLists ==
    { l \in UNION { [1..k -> ListedActions] : k \in 1..MaxList } :
        \A i, j \in 1..Len(l) : l[i].action = l[j].action => i = j }

Calls ==
    { [fn |-> "aggregate", arg |-> scored(t)] : t \in ScoreLists }
      \cup { [fn |-> "inferCategory", arg |-> n] : n \in ActionNames }
      \cup { [fn |-> "generateLocalAdvice", arg |-> l] : l \in ActionLists }

InitFn ==
    /\ Signup
    /\ apiKey = TRUE
    /\ call \in Calls
    /\ result = Pending
    /\ AuthIdle
    /\ ScriptLoaded
    /\ WorkerIdle
    /\ PopupClosed

aggregateCall ==
    /\ call.fn = "aggregate"
    /\ result = Pending
    /\ result' = aggregate(call.arg)
    /\ UNCHANGED <<pipelineVars, call, authVars, bannerVars, workerVars, popupVars, addFriend>>

inferCategoryCall ==
    /\ call.fn = "inferCategory"
    /\ result = Pending
    /\ result' = [category |-> inferCategoryChars(call.arg)]
    /\ UNCHANGED <<pipelineVars, call, authVars, bannerVars, workerVars, popupVars, addFriend>>

\* The catch block's call, on the statistics of the new actions.
generateLocalAdviceCall ==
    /\ call.fn = "generateLocalAdvice"
    /\ result = Pending
    /\ result' = localAdviceOf(computeStats(call.arg))
    /\ UNCHANGED <<pipelineVars, call, authVars, bannerVars, workerVars, popupVars, addFriend>>

NextFn ==
    \/ aggregateCall
    \/ inferCategoryCall
    \/ generateLocalAdviceCall

SpecFn == InitFn /\ [][NextFn]_vars

\* ------------------------------------------------------------------- claims

\* The invocation of tab p has read the checkpoint and selected.
Selected(p) == trace[p].path \in {"nothingNew", "generated", "noActions"}

\* Timestamp ts is strictly later than checkpoint T (ISO strings of one width
\* order as the moments they denote).
StrictlyLater(ts, T) == LexLess(T, ts)

\* The positions of A the selection must keep under checkpoint T.
Kept(A, T) == { i \in 1..Len(A) : T = Null \/ StrictlyLater(A[i].timestamp, T) }

\* The j-th smallest member of a set of positions.
Nth(S, j) == CHOOSE i \in S : Cardinality({ k \in S : k <= i }) = j

\* N consists of the members of A at the kept positions, in A's order.
ExactlyKept(N, A, T) ==
    /\ Len(N) = Cardinality(Kept(A, T))
    /\ \A j \in 1..Len(N) : N[j] = A[Nth(Kept(A, T), j)]

\* C1: once an invocation has read checkpoint T and selected from its action
\* list A, its new set is exactly the actions of A stamped strictly later than
\* T, in A's order (one stamped at T is left out); it is all of A when there
\* is no checkpoint; and selecting again from the new set under the same T
\* gives the new set back.
C1_Selection ==
    \A p \in Tabs :
        Selected(p) =>
            /\ ExactlyKept(inv[p].newActions, inv[p].userActions, inv[p].T)
            /\ (inv[p].T = Null => inv[p].newActions = inv[p].userActions)
            /\ selectNewActions(inv[p].newActions, inv[p].T) = inv[p].newActions

\* A checkpoint was read, one action of the list is stamped at it and left
\* out, another is later and selected.
C1_Witness ==
    \E p \in Tabs :
        /\ Selected(p)
        /\ inv[p].T # Null
        /\ \E i \in 1..Len(inv[p].userActions) : inv[p].userActions[i].timestamp = inv[p].T
        /\ inv[p].newActions # <<>>
        /\ Len(inv[p].newActions) < Len(inv[p].userActions)

\* The invocation of tab p read a checkpoint and none of its actions is later.
NothingNew(p) ==
    /\ Selected(p)
    /\ inv[p].T # Null
    /\ Kept(inv[p].userActions, inv[p].T) = {}

C2_State ==
    \A p \in Tabs :
        NothingNew(p) =>
            /\ trace[p].path = "nothingNew"
            /\ pc[p] \in {"read2", "done"}
            /\ trace[p].service = 0
            /\ trace[p].local = 0
            /\ trace[p].saves = 0
            /\ (pc[p] = "done" => error[p] = NoNewActionsMsg)

C2_Step ==
    \A p \in Tabs :
        (pc'[p] # pc[p] /\ NothingNew(p)') =>
            /\ UNCHANGED storeVars
            /\ written' = written

\* C2: an invocation that read a checkpoint and found no action later than it
\* takes the nothing-new path: it never calls the service, never generates
\* locally, never starts a save; none of its steps changes the store; and it
\* ends with the 'no new actions since your last insights' message set.
C2_NothingNew == []C2_State /\ [][C2_Step]_vars

\* A nothing-new invocation has ended, showing stored advice and the message.
C2_Witness ==
    \E p \in Tabs :
        /\ NothingNew(p)
        /\ pc[p] = "done"
        /\ advice[p] # NullAdvice
        /\ error[p] = NoNewActionsMsg

\* Key k is the greatest key of mapping pa.
GreatestKey(pa, k) == k \in DOMAIN pa /\ \A j \in DOMAIN pa : j = k \/ LexLess(j, k)

\* The last step of a nothing-new invocation of tab p showed stored advice.
ShowsPrevious(p) ==
    /\ pc[p] = "read2"
    /\ pc'[p] = "done"
    /\ advice'[p] # NullAdvice

C3_Step ==
    \A p \in Tabs :
        ShowsPrevious(p) =>
            LET k == trace'[p].key
            IN /\ IF inv[p].T \in DOMAIN previousAdvice THEN k = inv[p].T
                  ELSE GreatestKey(previousAdvice, k)
               /\ advice'[p] = JSONparse(previousAdvice[k])
               /\ <<k, advice'[p]>> \in written

\* Every record a cycle has persisted reads back from the store's string as
\* the record that was generated.
C3_RoundTrip == \A w \in written : JSONparse(JSONstringify(w[2])) = w[2]

\* C3: when a nothing-new invocation shows advice, it is the record parsed
\* from the string stored under the checkpoint T it read, or under the
\* greatest key of the mapping when T is not a key of it, and that record
\* equals, field by field, the one generated and serialized by a cycle that
\* wrote that key.
C3_PriorAdvice == []C3_RoundTrip /\ [][C3_Step]_vars

\* A nothing-new invocation has shown the record under the greatest key because
\* the checkpoint it read was no key of the mapping.
C3_Witness ==
    \E p \in Tabs :
        /\ pc[p] = "done"
        /\ trace[p].path = "nothingNew"
        /\ trace[p].key # Null
        /\ trace[p].key # inv[p].T
        /\ advice[p] # NullAdvice
        /\ <<trace[p].key, advice[p]>> \in written

\* The invocation of tab p ended with an empty selection.
EndedEmpty(p) ==
    /\ pc[p] = "done"
    /\ \/ trace[p].path = "emptyList"
       \/ Selected(p) /\ inv[p].newActions = <<>>

\* The checkpoint the invocation of tab p had to go by: the one it read, or,
\* when it returned before reading, the one stored when it was called.
CheckpointOf(p) == IF trace[p].path = "emptyList" THEN trace[p].stored ELSE inv[p].T

RemoteFailed(p) ==
    \/ trace[p].path = "generated" /\ ~apiKey
    \/ trace[p].cause \in {"throw", "status500"}

\* C5: when the new set is non-empty and the API key is missing, or fetch
\* rejects, or the status is not 2xx, the invocation builds the local advice
\* from the statistics of the new set, shows it, starts exactly one save of it,
\* reports no error, and ends with that advice shown and the busy flag down.
C5_RemoteFailure ==
    \A p \in Tabs :
        RemoteFailed(p) =>
            /\ inv[p].newActions # <<>>
            /\ inv[p].adviceData = localAdviceOf(computeStats(inv[p].newActions))
            /\ inv[p].adviceData # NullAdvice
            /\ advice[p] = inv[p].adviceData
            /\ error[p] = Null
            /\ trace[p].local = 1
            /\ trace[p].saves = 1
            /\ pc[p] \in {"saveRead", "saveWrite", "done"}
            /\ (pc[p] = "saveWrite" => inv[p].adviceString = JSONstringify(inv[p].adviceData))
            /\ (pc[p] = "done" => ~loading[p])

\* An invocation whose request was answered with status 500 has ended.
C5_Witness ==
    \E p \in Tabs :
        /\ trace[p].cause = "status500"
        /\ pc[p] = "done"
        /\ advice[p] = localAdviceOf(computeStats(inv[p].newActions))
        /\ error[p] = Null

\* The service answered tab p's invocation 2xx with a text that, fences
\* stripped, is not JSON.
MalformedAnswer(p) == trace[p].cause = "badText"

\* The non-blank lines of a text, as strings.
NonBlankLines(text) ==
    SelectSeq([i \in 1..Len(text) |-> flatten(text[i])], LAMBDA t : t # <<>>)

C7_State ==
    mostRecentInsightsTimestamp # Null =>
        GreatestKey(previousAdvice, mostRecentInsightsTimestamp)

\* A save of tab p landed in this step.
PersistLands(p) ==
    /\ pc[p] = "saveWrite"
    /\ pc'[p] = "done"
    /\ written' # written \/ adviceStoreVars' # adviceStoreVars

C7_Step ==
    \A p \in Tabs :
        PersistLands(p) =>
            /\ mostRecentInsightsTimestamp' = inv[p].timestamp
            /\ GreatestKey(previousAdvice', inv[p].timestamp)
            /\ previousAdvice'[inv[p].timestamp] = JSONstringify(inv[p].adviceData)

C8_AppendOnly ==
    [][\A k \in DOMAIN previousAdvice :
          k \in DOMAIN previousAdvice' /\ previousAdvice'[k] = previousAdvice[k]]_vars

\* A record that was persisted under some key is no longer in the mapping
\* under any key.
C8_Witness ==
    \E w \in written :
        /\ w[1] \notin DOMAIN previousAdvice
        /\ \A k \in DOMAIN previousAdvice : previousAdvice[k] # JSONstringify(w[2])

\* C9: no step moves the pointer to an earlier timestamp than it held, or back
\* to null.
C9_Advances ==
    [][mostRecentInsightsTimestamp # Null =>
          /\ mostRecentInsightsTimestamp' # Null
          /\ ~LexLess(mostRecentInsightsTimestamp', mostRecentInsightsTimestamp)]_vars

\* The pointer is earlier than the key of a record that was persisted.
C9_Witness ==
    /\ mostRecentInsightsTimestamp # Null
    /\ \E w \in written : LexLess(mostRecentInsightsTimestamp, w[1])

\* C10: every stored action stamped at or before the pointer was in the new
\* set of some cycle whose save landed, also when addAction ran while an
\* invocation was in flight.
C10_Reflected ==
    \A n \in DOMAIN actions :
        (/\ mostRecentInsightsTimestamp # Null
         /\ ~LexLess(mostRecentInsightsTimestamp, actionTimestamps[n]))
            => <<n, actionTimestamps[n]>> \in reflected

\* An action recorded after an invocation took its list, and stamped strictly
\* before that invocation's save, is behind the pointer and in no persisted
\* cycle's new set.
C10_Witness ==
    \E n \in DOMAIN actions :
        /\ mostRecentInsightsTimestamp # Null
        /\ LexLess(actionTimestamps[n], mostRecentInsightsTimestamp)
        /\ \A r \in reflected : r[1] # n

\* The save of tab p's invocation failed at its read or at its write.
PersistFailed(p) == trace[p].persist \in {"readFailed", "writeFailed"}

\* The step in which the invocation of tab p returns from its save.
ReturnsFromSave(p) == pc[p] \in {"saveRead", "saveWrite"} /\ pc'[p] = "done"

C11_State ==
    \A p \in Tabs :
        PersistFailed(p) =>
            /\ pc[p] = "done"
            /\ advice[p] = inv[p].adviceData
            /\ advice[p] # NullAdvice
            /\ error[p] = Null
            /\ ~loading[p]
            /\ trace[p].saves = 1

C11_Step ==
    \A p \in Tabs :
        (ReturnsFromSave(p) /\ PersistFailed(p)') =>
            /\ UNCHANGED storeVars
            /\ written' = written
            /\ advice'[p] = advice[p]

\* C11: when the read or the write inside saveInsightsToFirestore fails, the
\* invocation ends with the advice it had generated still shown, no error set
\* and the busy flag down; it started one save and no other; and the failing
\* step leaves every field of the user document as it was.
C11_SoftPersist == []C11_State /\ [][C11_Step]_vars

\* An invocation whose updateDoc threw has ended while an earlier cycle's
\* record is in the store.
C11_Witness ==
    \E p \in Tabs :
        /\ trace[p].persist = "writeFailed"
        /\ pc[p] = "done"
        /\ advice[p] # NullAdvice
        /\ mostRecentInsightsTimestamp # Null
        /\ mostRecentInsightsTimestamp # inv[p].timestamp

\* C12: every invocation called with at least one action ends with a non-null
\* advice record shown, whichever reads, service call or save failed on the way.
C12_UsableAdvice ==
    \A p \in Tabs :
        (pc[p] = "done" /\ inv[p].userActions # <<>>) => advice[p] # NullAdvice

\* A nothing-new invocation has ended with the message set and no advice shown.
C12_Witness ==
    \E p \in Tabs :
        /\ pc[p] = "done"
        /\ trace[p].path = "nothingNew"
        /\ inv[p].userActions # <<>>
        /\ error[p] = NoNewActionsMsg
        /\ advice[p] = NullAdvice

\* The invocation of tab p went on without a checkpoint although the store
\* held one when it was called: its first read failed.  (When the store holds
\* none, a failed read and a successful one leave the invocation the same.)
FirstReadFailed(p) ==
    /\ Selected(p)
    /\ trace[p].stored # Null
    /\ inv[p].T = Null

\* C13: when the first read of the user document fails, the invocation goes on
\* as if there were no checkpoint: it selects every action it was called with,
\* computes the statistics over all of them, generates advice (by the service
\* or locally), reports no error, and ends with that advice shown.
C13_ReadFailureDegrades ==
    \A p \in Tabs :
        FirstReadFailed(p) =>
            /\ inv[p].newActions = inv[p].userActions
            /\ trace[p].path = "generated"
            /\ inv[p].stats = computeStats(inv[p].userActions)
            /\ trace[p].service + trace[p].local >= 1
            /\ error[p] = Null
            /\ (pc[p] = "done" => advice[p] # NullAdvice /\ advice[p] = inv[p].adviceData)

\* An invocation whose first read failed has ended with advice over a list that
\* holds an action no later than the stored checkpoint.
C13_Witness ==
    \E p \in Tabs :
        /\ FirstReadFailed(p)
        /\ pc[p] = "done"
        /\ advice[p] # NullAdvice
        /\ \E i \in 1..Len(inv[p].newActions) :
              ~StrictlyLater(inv[p].newActions[i].timestamp, trace[p].stored)


\* f was applied to its argument and has returned.
Returned(f) == call.fn = f /\ result # Pending

\* The orders in which the same actions can be listed.
Reorderings(seq) ==
    { [i \in 1..Len(seq) |-> seq[f[i]]] :
        f \in { g \in [1..Len(seq) -> 1..Len(seq)] :
                  \A i, j \in 1..Len(seq) : g[i] = g[j] => i = j } }

\* x + y with nothing rounded away.
ExactAdd(x, y) ==
    LET e == IF x.e < y.e THEN x.e ELSE y.e
        a == Aligned(x, e)
        b == Aligned(y, e)
    IN IF x.s = y.s THEN Canon(x.s, AddBits(a, b), e)
       ELSE IF LessBits(a, b) THEN Canon(y.s, SubBits(b, a), e)
       ELSE Canon(x.s, SubBits(a, b), e)

RECURSIVE ExactSum(_)
ExactSum(list) ==
    IF list = <<>> THEN Zero
    ELSE ExactAdd(ExactSum(Tail(list)), Head(list).sustainabilityScore)

SumIsExact == result.totalScore = ExactSum(call.arg)

MeanIsTotalOverCount ==
    result.avgScore = DoubleDivInt(result.totalScore, Len(call.arg))

OrderIndependent ==
    \A q \in Reorderings(call.arg) :
        totalScoreOf(q) = result.totalScore /\ avgScoreOf(q) = result.avgScore

\* C14: for every non-empty list of new actions the total is the exact sum of
\* the scores, zero and negative ones included, the mean is the total divided
\* by the number of actions, and both are the same however the list is
\* ordered.
C14_Aggregation ==
    Returned("aggregate") => SumIsExact /\ MeanIsTotalOverCount /\ OrderIndependent

\* An aggregation has returned a total that another order of the same actions
\* does not give.
C14_Witness ==
    /\ Returned("aggregate")
    /\ \E q \in Reorderings(call.arg) : totalScoreOf(q) # result.totalScore


\* The score of the i-th action of the argument as the service wrote it, in
\* tenths.
Tenths(i) ==
    LET t == CHOOSE t \in ScoreTexts : Scores[t] = call.arg[i].sustainabilityScore
    IN IF t.neg THEN 0 - (t.whole * 10 + t.tenth) ELSE t.whole * 10 + t.tenth

Places == 1..Len(call.arg)
High == { i \in Places : Tenths(i) > 10 * HighThreshold }
Low == { i \in Places : Tenths(i) < 10 * LowThreshold }
Between == { i \in Places : 10 * LowThreshold <= Tenths(i) /\ Tenths(i) <= 10 * HighThreshold }

\* list holds exactly the actions of the argument at the places in set, each
\* once.
HoldsExactly(list, set) ==
    /\ Len(list) = Cardinality(set)
    /\ \A i \in set : \E j \in 1..Len(list) : list[j] = call.arg[i]
    /\ \A j \in 1..Len(list) : list[j].action \in set

\* C15: highImpact is exactly the actions with score > 50 and lowImpact
\* exactly those with score < 25; no action is in both, the actions with
\* 25 <= score <= 50 are in neither, and high, low and the rest together hold
\* every action of the input exactly once.
C15_Buckets ==
    Returned("aggregate") =>
        /\ HoldsExactly(result.highImpactActions, High)
        /\ HoldsExactly(result.lowImpactActions, Low)
        /\ \A i \in Places :
              ~(\E j \in 1..Len(result.highImpactActions) :
                    result.highImpactActions[j].action = i
                 /\ \E k \in 1..Len(result.lowImpactActions) :
                       result.lowImpactActions[k].action = i)
        /\ \A i \in Between :
              /\ \A j \in 1..Len(result.highImpactActions) :
                    result.highImpactActions[j].action # i
              /\ \A j \in 1..Len(result.lowImpactActions) :
                    result.lowImpactActions[j].action # i
        /\ Len(result.highImpactActions) + Len(result.lowImpactActions)
              + Cardinality(Between) = Len(call.arg)

\* An aggregation has returned for three actions: one scored just above 50 in
\* high, one scored just below 25 in low, and one scored exactly 50 in
\* neither.
C15_Witness ==
    /\ Returned("aggregate")
    /\ Len(call.arg) = 3
    /\ Len(result.highImpactActions) = 1
    /\ Len(result.lowImpactActions) = 1
    /\ \E i \in High : Tenths(i) = 10 * HighThreshold + 1
    /\ \E i \in Low : Tenths(i) = 10 * LowThreshold - 1
    /\ \E i \in Between : Tenths(i) = 10 * HighThreshold


Priority == <<"Transportation", "Energy", "Food", "Waste", "Environment">>

KeywordsOf(category) ==
    CASE category = "Transportation" -> TransportationKeywords
      [] category = "Energy" -> EnergyKeywords
      [] category = "Food" -> FoodKeywords
      [] category = "Waste" -> WasteKeywords
      [] category = "Environment" -> EnvironmentKeywords

\* c is the lower-case letter d or its capital.
SameLetter(c, d) == c = d \/ \E k \in 1..26 : c = UpperCase[k] /\ d = LowerCase[k]

\* kw occurs in the name whatever the case of the name's letters.
Occurs(kw, name) ==
    \E at \in 0..(Len(name) - Len(kw)) :
        \A j \in 1..Len(kw) : SameLetter(name[at + j], kw[j])

\* The places in the priority order of the categories with a keyword in the
\* name.
Matching(name) ==
    { k \in 1..Len(Priority) : \E kw \in KeywordsOf(Priority[k]) : Occurs(kw, name) }

\* C16: the category of a name is the first of Transportation, Energy, Food,
\* Waste, Environment one of whose keywords occurs in the name as a substring,
\* whatever the case, and General when no keyword occurs; a name with
\* keywords of several categories gets the earliest of them.
C16_Category ==
    Returned("inferCategory") =>
        /\ result = [category |-> inferCategoryChars(call.arg)]
        /\ IF Matching(call.arg) = {} THEN result.category = "General"
           ELSE \E k \in Matching(call.arg) :
                   /\ result.category = Priority[k]
                   /\ \A other \in Matching(call.arg) : k <= other

\* A name typed with capitals that holds keywords of three categories has
\* been given the earliest of them, which is not the first in the name.
C16_Witness ==
    /\ Returned("inferCategory")
    /\ call.arg = <<"R","e","c","y","c","l","e">> \o <<" ">> \o <<"L","i","g","h","t">>
    /\ Matching(call.arg) = {1, 2, 4}
    /\ result.category = "Transportation"


\* An advice record of the shape the prompt asks for.
WellShaped(record) ==
    /\ {"insights", "recommendations", "summary"} \subseteq DOMAIN record
    /\ Len(record.insights) <= MaxItems
    /\ Len(record.recommendations) <= MaxItems

\* C17: every advice record shown to the user or persisted, whether the
\* service or local generation produced it, has at most 5 insights, at most 5
\* recommendations and a summary.
C17_Shape ==
    /\ \A p \in Tabs : advice[p] # NullAdvice => WellShaped(advice[p])
    /\ \A w \in written : WellShaped(w[2])

\* The service answered with prose; the record made of it, which has neither
\* recommendations nor a summary, is shown and has been persisted.
C17_Witness ==
    \E p \in Tabs :
        /\ MalformedAnswer(p)
        /\ pc[p] = "done"
        /\ advice[p] = rawAdvice(inv[p].responseText)
        /\ DOMAIN advice[p] = {"message", "insights"}
        /\ <<inv[p].timestamp, advice[p]>> \in written


\* The list handed to generateLocalAdvice holds a Transportation action, so
\* the share of transportation in the total is computed.
DividesByTotal ==
    \E i \in 1..Len(call.arg) : call.arg[i].category = "Transportation"

\* C18: for every non-empty list of actions with its statistics, lists with a
\* zero or negative total and lists with Transportation actions included,
\* generateLocalAdvice returns a record with at least one insight and at
\* least two recommendations, and never divides by a zero total.
C18_LocalTotal ==
    Returned("generateLocalAdvice") =>
        /\ Len(result.insights) >= 1
        /\ Len(result.recommendations) >= 2
        /\ DividesByTotal => computeStats(call.arg).totalScore # 0

\* Local generation has returned for a list with a Transportation action and
\* a total of zero: the share it reports is not a number.
C18_Witness ==
    /\ Returned("generateLocalAdvice")
    /\ DividesByTotal
    /\ computeStats(call.arg).totalScore = 0
    /\ \E i \in 1..Len(result.insights) :
          result.insights[i] \in
             { <<"Transportation accounts for ", x, "% of your total carbon impact.">> :
                 x \in {"NaN", "Infinity", "-Infinity"} }


\* The external call tab p's invocation is waiting for, as its position says.
AwaitsRead(p) == pc[p] \in {"read1", "read2", "saveRead"}
AwaitsService(p) == pc[p] = "fetch"
AwaitsWrite(p) == pc[p] = "saveWrite"

\* As the history says: the service was called and has not settled.
ServiceOutstanding(p) == trace[p].service >= 1 /\ trace[p].cause = "none"

C19_State ==
    \A p \in Tabs :
        /\ trace[p].service <= 1
        /\ ServiceOutstanding(p) <=> AwaitsService(p)
        /\ ServiceOutstanding(p) => ~AwaitsRead(p) /\ ~AwaitsWrite(p)
        /\ AwaitsWrite(p) \/ pc[p] = "saveRead" => trace[p].cause # "none"

C19_Step ==
    /\ \A p \in Tabs :
          trace'[p].service > trace[p].service =>
              trace[p].service = 0 /\ AwaitsRead(p) /\ AwaitsService(p)'
    /\ (adviceStoreVars' # adviceStoreVars \/ written' # written) =>
          \E p \in Tabs :
              /\ AwaitsWrite(p)
              /\ pc'[p] = "done"
              /\ ~ServiceOutstanding(p)
              /\ trace[p].cause # "none"

\* C19: within one invocation at most one external call is outstanding at a
\* time, the service is called at most once, and no write to the store is
\* made before the service call has returned or failed.
C19_Sequential == []C19_State /\ [][C19_Step]_vars

\* An invocation called the service once, had its answer, and then wrote the
\* advice to the store.
C19_Witness ==
    \E p \in Tabs :
        /\ pc[p] = "done"
        /\ trace[p].service = 1
        /\ trace[p].cause = "ok"
        /\ trace[p].persist = "landed"
        /\ <<inv[p].timestamp, inv[p].adviceData>> \in written


\* The stages of an invocation, in the order the handler goes through them.
Stage(at) ==
    CASE at = "idle" -> 0
      [] at = "read1" -> 1
      [] at \in {"read2", "fetch"} -> 2
      [] at = "saveRead" -> 3
      [] at = "saveWrite" -> 4
      [] at = "done" -> 5

Started(p) == pc[p] \notin {"idle", "done"}

\* Done with advice, or failed with a message.
Terminal(p) ==
    /\ pc[p] = "done"
    /\ ~loading[p]
    /\ advice[p] # NullAdvice \/ error[p] # Null

C20_Step ==
    \A p \in Tabs :
        pc'[p] # pc[p] =>
            \/ Stage(pc'[p]) > Stage(pc[p])
            \/ ~Started(p) /\ pc'[p] = "read1"

\* C20: provided every store call and the service call returns or fails in
\* the end, every started invocation reaches a terminal state, done with
\* advice or failed with an error message, and it never goes back to an
\* earlier stage.
C20_Terminates ==
    /\ \A p \in Tabs : Started(p) ~> Terminal(p)
    /\ []\A p \in Tabs : pc[p] = "done" => Terminal(p)
    /\ [][C20_Step]_vars

\* An invocation that went through both reads, the service call and the
\* write has ended with its advice shown.
C20_Witness ==
    \E p \in Tabs :
        /\ Terminal(p)
        /\ trace[p].service = 1
        /\ trace[p].persist = "landed"
        /\ advice[p] # NullAdvice


\* C21: at termination the 'no new actions' message is set only on the
\* nothing-new path; an invocation that generated advice, by the service or
\* locally, ends with that advice shown and no message set.
C21_Staleness ==
    \A p \in Tabs :
        pc[p] = "done" =>
            /\ error[p] = NoNewActionsMsg => trace[p].path = "nothingNew" /\ NothingNew(p)
            /\ trace[p].path = "generated" =>
                  /\ advice[p] # NullAdvice
                  /\ advice[p] = inv[p].adviceData
                  /\ error[p] = Null

\* An invocation has ended on the nothing-new path with the message set next
\* to the stored advice it shows.
C21_Witness ==
    \E p \in Tabs :
        /\ pc[p] = "done"
        /\ trace[p].path = "nothingNew"
        /\ error[p] = NoNewActionsMsg
        /\ advice[p] # NullAdvice
        /\ \E w \in written : w[2] = advice[p] /\ "summary" \in DOMAIN advice[p]


\* The updateDoc of tab p's addAction lands in this step.
AddLands(p) == addPc[p] = "write" /\ addPc'[p] = "idle"

\* The store holds the entry of this call for its name.
OwnEntryWritten(p) ==
    /\ add[p].actionName \in DOMAIN actions'
    /\ actions'[add[p].actionName] = add[p].score
    /\ actionTimestamps'[add[p].actionName] = add[p].timestamp

\* The entries of the other names are as they were before the write.
OthersUnchanged(p) ==
    /\ DOMAIN actions' = DOMAIN actions \cup {add[p].actionName}
    /\ DOMAIN actionTimestamps' = DOMAIN actionTimestamps \cup {add[p].actionName}
    /\ \A other \in DOMAIN actions \ {add[p].actionName} :
          actions'[other] = actions[other]
    /\ \A other \in DOMAIN actionTimestamps \ {add[p].actionName} :
          actionTimestamps'[other] = actionTimestamps[other]

C22_Step == \A p \in Tabs : AddLands(p) => OwnEntryWritten(p) /\ OthersUnchanged(p)

\* C22: when addAction(name, score) succeeds the store maps name to that score
\* and to the timestamp of the call, one entry per name, and the entries of
\* every other name are unchanged.
C22_LastWriteWins == [][C22_Step]_vars

\* A tab lists an action, read back from the store when its own add landed,
\* that the store no longer holds.
C22_Witness ==
    \E p \in Tabs : \E i \in 1..Len(userActions[p]) :
        userActions[p][i].action \notin DOMAIN actions


\* A step of some tab's handleGetAdvice or saveInsightsToFirestore.
PipelineStep == \E p \in Tabs : pc'[p] # pc[p] \/ trace'[p] # trace[p] \/ inv'[p] # inv[p]

C23_Step ==
    PipelineStep =>
        /\ actions' = actions
        /\ actionTimestamps' = actionTimestamps
        /\ adviceStoreVars' # adviceStoreVars =>
              \E p \in Tabs :
                  /\ pc[p] = "saveWrite"
                  /\ pc'[p] = "done"
                  /\ mostRecentInsightsTimestamp' = inv[p].timestamp
                  /\ previousAdvice' =
                        (inv[p].timestamp :> inv[p].adviceString) @@ inv[p].currentPreviousAdvice

\* C23: no step of handleGetAdvice or saveInsightsToFirestore adds, changes or
\* removes an entry of actions or actionTimestamps; the only write of the
\* pipeline sets mostRecentInsightsTimestamp and previousAdvice.
C23_Frame == [][C23_Step]_vars

\* A save has landed while the store held two actions, and both are still
\* there with their timestamps.
C23_Witness ==
    /\ written # {}
    /\ mostRecentInsightsTimestamp # Null
    /\ DOMAIN actions = {"Drive", "Compost"}
    /\ DOMAIN actionTimestamps = {"Drive", "Compost"}


\* Call c of signup created an account and has returned.
CreatedAndReturned(c) == signupPc[c] = "returned" /\ signupLocal[c].uid # ""

\* The document signup writes for the account of call c.
IsFreshDocument(d, c) ==
    /\ d.email = toLowerCase(signupLocal[c].email)
    /\ d.actions = EmptyMap
    /\ d.actionTimestamps = EmptyMap
    /\ d.previousAdvice = EmptyMap
    /\ d.mostRecentInsightsTimestamp = Null
    /\ d.friends = <<>>

C24_State ==
    \A c \in SignupCalls :
        CreatedAndReturned(c) =>
            /\ signupLocal[c].uid \in DOMAIN users
            /\ users[signupLocal[c].uid] = ForeignDoc
                  \/ IsFreshDocument(users[signupLocal[c].uid], c)

C24_Step == \A u \in DOMAIN users : u \in DOMAIN users' /\ users'[u] = users[u]

\* C24: once signup has returned for an account it created, users/<uid> holds
\* a document with the lowercased email, empty actions, actionTimestamps and
\* previousAdvice, a null mostRecentInsightsTimestamp and no friends; and
\* signup never overwrites a document that exists.
C24_UserDocument == []C24_State /\ [][C24_Step]_vars

\* signup created an account and returned an error, and the account has no
\* document.
C24_Witness ==
    \E c \in SignupCalls :
        /\ CreatedAndReturned(c)
        /\ signupLocal[c].uid \in accounts
        /\ signupLocal[c].error # Null
        /\ signupLocal[c].uid \notin DOMAIN users


\* An invocation of tab p begins in this step: it passes its empty-list check.
Begins(p) == cycles' = cycles + 1 /\ pc'[p] = "read1" /\ inv'[p] # inv[p]

C25_State == \A p \in Tabs : loading[p] <=> Started(p)

C25_Step == \A p \in Tabs : Begins(p) => ~Started(p)

\* C25: loading is true at every point between an invocation passing its
\* empty-list check and its termination and false after termination on every
\* path, and an invocation begins on a tab only when none is in flight there.
C25_Busy == []C25_State /\ [][C25_Step]_vars

\* An invocation that ended on the nothing-new path with the flag lowered is
\* followed by a second one on the same tab, in flight with the flag raised.
C25_Witness ==
    \E p \in Tabs :
        /\ Started(p)
        /\ loading[p]
        /\ cycles >= 2
        /\ \A q \in Tabs : q # p => pc[q] = "idle"


\* A banner leaves the page in this step.
Removed == banner \in dom /\ banner \notin dom'

\* The auto-hide and post-success timers that fire in this step.
Fired == (hideTimers \ hideTimers') \cup (removeTimers \ removeTimers')

\* checkPrompt runs in this step: from the debounce, from the initial check.
Debounced == debounceTimer = <<0>> /\ debounceTimer' = Null
InitialCheck == initTimer = <<0>> /\ initTimer' = Null

\* The interval sees a new URL in this step.
UrlSeen == urlChanged /\ ~urlChanged'

\* The step is a click on a button of the banner.
Clicked == events' = events + 1 /\ UNCHANGED <<fieldText, urlChanged>>

C26_Step ==
    Removed =>
        \/ Clicked
        \/ (Debounced \/ InitialCheck) /\ Len(getPromptText(fieldText)) < MIN_PROMPT_LENGTH
        \/ UrlSeen
        \/ Fired # {} /\ \A t \in Fired : t.left = 0 /\ t.armedFor = banner

\* C26: a banner leaves the page only when the user dismisses it, checkPrompt
\* finds the prompt too short, the URL changes, its own optimization has
\* completed, or its own 15 s have passed: a timer armed for an earlier banner
\* never removes a later one.
C26_Lifetime == [][C26_Step]_vars

\* The auto-hide timer of an earlier banner has come due while a later banner,
\* whose own timer has time left, is on the page.
C26_Witness ==
    /\ banner \in dom
    /\ ~state.isProcessing
    /\ \E t \in hideTimers : t.armedFor # banner /\ t.left = 0
    /\ \E t \in hideTimers : t.armedFor = banner /\ t.left > 0


\* A banner element is created in this step.
Created == dom' \ dom # {}

C27_State ==
    /\ Cardinality(dom) <= 1
    /\ state.bannerShown <=> dom # {}
    /\ state.bannerShown => banner \in dom

C27_Step ==
    /\ Created =>
          /\ Debounced \/ InitialCheck
          /\ Len(getPromptText(fieldText)) >= MIN_PROMPT_LENGTH
          /\ hashPrompt(getPromptText(fieldText)) # state.lastPromptHash
          /\ ~state.isProcessing
          /\ dom = {}
    /\ Debounced => quiet >= DEBOUNCE_MS

\* C27: at most one banner exists and state.bannerShown is true exactly when
\* one does; a banner is created only by a checkPrompt run that found at least
\* 100 characters with a hash other than lastPromptHash while nothing is
\* processing; and the debounced checkPrompt runs only after 800 ms without an
\* input, paste or keyup event.
C27_BannerState == []C27_State /\ [][C27_Step]_vars

\* A second banner has just been created, the first having been removed: it
\* is the only one on the page, the flag is up and its timer is freshly armed,
\* 800 ms after the last input event.
C27_Witness ==
    /\ state.bannerShown
    /\ banner = <<2>>
    /\ dom = { <<2>> }
    /\ debounceTimer = Null
    /\ quiet = DEBOUNCE_MS
    /\ \E t \in hideTimers : t.armedFor = banner /\ t.left = BANNER_AUTO_HIDE_MS


\* Call c invokes chrome.offscreen.createDocument in this step.
Invokes(c) == worker[c].at # "creating" /\ worker'[c].at = "creating"

C28_Step == \A c \in WorkerCalls : Invokes(c) => ~offscreen

C28_State ==
    /\ \A c \in WorkerCalls : ~worker[c].failed
    /\ Cardinality({ c \in WorkerCalls : worker[c].at = "creating" }) <= 1

\* C28: chrome.offscreen.createDocument is invoked only when no offscreen
\* document exists, creation is not attempted twice, and no attempt is made
\* (and rejected) while a document exists, also when calls overlap.
C28_SingleCreation == []C28_State /\ [][C28_Step]_vars

\* The startup call and a call made for a message were both told that no
\* document exists; one has created it and the other's createDocument was
\* rejected.
C28_Witness ==
    /\ offscreen
    /\ ~worker["startup"].hasDocument
    /\ worker["startup"].at = "returned"
    /\ \E c \in WorkerCalls \ {"startup"} :
          /\ worker[c].action \in AuthActions
          /\ ~worker[c].hasDocument
          /\ worker[c].at = "returned"
          /\ worker[c].failed \/ worker["startup"].failed


\* The popup holds no session, in memory or in chrome.storage.local.
Cleared == popup = NoSession

\* C29: once a sign-out has completed, and until a sign-in or sign-up
\* succeeds, currentUser and currentIdToken are null and chrome.storage.local
\* holds no userEmail, userUid or idToken, also when a getIdToken or
\* getCurrentUser request was in flight at the moment of sign-out.
C29_SignedOut == signedOut => Cleared

\* After a completed sign-out, with nobody signed in and no request or
\* message outstanding, the popup holds a token again.
C29_Witness ==
    /\ signedOut
    /\ authUser = <<>>
    /\ authEvents = <<>>
    /\ \A k \in RequestKinds : requests[k].at = "idle"
    /\ popup.currentIdToken # <<>>
    /\ popup.idToken # <<>>


\* The user's friends list, empty while the user has no document.
Friends == IF Self \in DOMAIN users THEN users[Self].friends ELSE <<>>

C30_State ==
    /\ \A i, j \in 1..Len(Friends) : Friends[i] = Friends[j] => i = j
    /\ \A i \in 1..Len(Friends) : Friends[i] # Self /\ Friends[i] \in DOMAIN users

\* The list changes only when an updateDoc lands, by one id at its end that
\* the call found by its address; a call that ends with a message writes
\* nothing.
C30_Step ==
    /\ Friends' # Friends =>
          \E p \in Components :
              /\ addFriend[p].at = "updateDoc"
              /\ addFriend'[p].addFriendError = ""
              /\ Friends' = Append(addFriend[p].currentFriends, addFriend[p].friendId)
              /\ users[addFriend[p].friendId].email =
                    toLowerCase(trimmed(addFriend[p].friendEmail))
    /\ \A p \in Components :
          addFriend'[p] # addFriend[p] /\ addFriend'[p].addFriendError # "" =>
              Friends' = Friends

\* C30: the user's friends list holds no id twice, never the user's own uid,
\* and only ids of existing user documents, also when the read and the write
\* of two calls interleave; a rejected add leaves the list unchanged.
C30_Friends == []C30_State /\ [][C30_Step]_vars

\* The two components' calls interleaved: both read the same list, both
\* writes landed, and the list is the later write's, without the id the other
\* call added.
C30_Witness ==
    \E p, q \in Components :
        /\ p # q
        /\ addFriend[p].at = "idle" /\ addFriend[q].at = "idle"
        /\ addFriend[p].addFriendError = "" /\ addFriend[q].addFriendError = ""
        /\ addFriend[p].friendId # "" /\ addFriend[q].friendId # ""
        /\ addFriend[p].currentFriends = addFriend[q].currentFriends
        /\ Self \in DOMAIN users
        /\ Friends = Append(addFriend[p].currentFriends, addFriend[p].friendId)
        /\ \A i \in 1..Len(Friends) : Friends[i] # addFriend[q].friendId

====
